---- MODULE Spec2Model ----
(***************************************************************************)
(* Synthetic card-transaction generator: the per-date partition-counter    *)
(* protocol (dynamodb_client.rs), the job pipeline with its dual-bucket    *)
(* uploads (data-generator main.rs), the bounded upload retry and the row  *)
(* seed derivation.                                                        *)
(*                                                                         *)
(* Spec      : several jobs sharing one per-date partition record.         *)
(* SpecJob   : one job with its worker threads and their uploads.          *)
(* SpecRetry : one upload_to_respective_buckets call, attempt by attempt.  *)
(* SpecSeed  : the row seeds of two rows.                                  *)
(* SpecSeq   : the sequence numbers of two rows of one date.               *)
(* SpecField : two calls of the field resolver for one field and seed.     *)
(* SpecLogic : two syntheses of the business logic from one seed.          *)
(* SpecGen   : one generate_thread_data and the uploads it spawns.         *)
(* SpecColumn: one typed column value, converted in two runs.              *)
(* SpecPool  : one get_100_random_hash_pans call.                          *)
(* SpecRun   : one job run, put_object attempt by attempt, with fairness.  *)
(* SpecDate  : the partition date of the runs of one job.                  *)
(* SpecSubmit: the job submitter's array requests.                         *)
(***************************************************************************)
EXTENDS Integers, Sequences, FiniteSets, TLC

(* ------------------------------ bounds -------------------------------- *)
\* jobs that address the same partition date
NumJobs == 2
\* restarts of failed jobs, all jobs together
MaxRestarts == 1
\* partition-store requests that may fail for a transient reason
MaxStoreErrors == 1
\* value of job_counter left by earlier jobs of the date
MaxInitCounter == 1

Jobs == 1..NumJobs

\* failed put_object attempts in one model run
MaxS3Errors == 3
\* rows per thread (NUM_OF_ROWS) in the modelled pipeline
MaxRows == 4
\* largest max_retries upload_with_retry is called with
MaxRetries == 3
\* largest job_index of a modelled row
MaxJobIndex == 2
\* largest value a draw of rand::thread_rng() takes
MaxUnseeded == 1
\* runs of the process, the first included
MaxProcessRuns == 2
\* largest seed a business logic is synthesized from, the spec's 12345 apart
MaxLogicSeed == 100
\* get_item requests of one get_100_random_hash_pans call, for the loop's 1000
MaxPoolLookups == 3
\* days that pass while a job is run and run again
MaxDaysPassed == 3
\* largest TARGET_TB the job submitter is started with
MaxTargetTb == 12

(* --------------------------- program constants ------------------------ *)
\* let num_threads = 3;
num_threads == 3
Threads == 1..num_threads
\* upload_with_retry(s3_client, bucket, key, &data, 3)
UploadRetries == 3
\* CHARGEBACK_PERCENTAGE defaults to "0.1" percent: 0.001, in millionths
DefaultChargebackPpm == 1000
\* a NUM_OF_ROWS that is unset or does not parse
DefaultNumRows == 250000
\* the job submitter's NUM_OF_ROWS
SubmittedNumRows == 1000000
\* thread_seed = job_index * 1000 + thread_id
ThreadSeedFactor == 1000
\* row seed = thread_seed * 100000 + row_idx
RowSeedFactor == 100000
\* the modulus that takes the row index back out of a row seed
SeedRowModulus == 100000
\* Duration::from_millis(1000 * 2^attempt)
BackoffBaseMs == 1000
\* const MAX_ARRAY_SIZE: i32 = 1000;
MAX_ARRAY_SIZE == 1000
\* const BASE_TB: i32 = 655;
BASE_TB == 655

\* the two buckets of upload_to_respective_buckets
Dests == {"main", "specialized"}
\* upload_tasks, in the order they are pushed and awaited
TableNames == <<"authorization", "authorization_hash", "clearing", "clearing_hash",
                "chargeback", "chargeback_hash">>

VARIABLES
    \* the per-date record of the partition counter table
    job_counter,        \* attribute job_counter (0: attribute absent)
    has_active_jobs,    \* whether the attribute active_jobs exists
    active_jobs,        \* the map active_jobs: job_id -> partition order
    \* the jobs
    pc,                 \* where each job stands in main / get_partition_job_order
    partition_order,    \* get_partition_job_order's local partition_order
    calls,              \* runs started by each job
    returned,           \* the orders get_partition_job_order returned to each job, in order
    aborted_with,       \* <<k>> when the job's last pipeline aborted on an upload while holding k
    init_counter,       \* job_counter when the first job of the model starts
    restarts,           \* restarts of failed jobs so far
    store_errors,       \* transient partition-store failures so far
    \* the pipeline of a job (SpecJob)
    num_rows,           \* NUM_OF_ROWS as main parsed it
    chargeback_ppm,     \* chargeback_percentage, in millionths
    thread_state,       \* per job and thread: "idle", "ok" (returned Ok) or "err"
    stored,             \* <<job, thread, table, destination>>: objects the run has put
    failed_uploads,     \* <<job, thread, table, destination>>: uploads out of retries
    s3_errors,          \* failed put_object attempts so far
    \* one upload_to_respective_buckets call (SpecRetry)
    max_retries,        \* upload_with_retry's max_retries
    upload,             \* per destination: status, attempt, sent, log, waits, stored
    join_result,        \* what try_join! returned: "pending", "ok" or "err"
    \* two rows of generate_thread_data (SpecSeed)
    env_num_rows,       \* the NUM_OF_ROWS variable: <<>> when unset, else <<value>>
    row_a, row_b,       \* [job_index, thread_id, row_idx]
    seed_a, seed_b,     \* <<>> before the seeds are computed, else <<row seed>>
    \* the sequence numbers of the two rows (SpecSeq)
    order_of,           \* the partition order each job holds on the date
    seq_a, seq_b,       \* <<>> before, else the row's sequence_number in each table
    \* two calls of the field resolver for one field and row seed (SpecField)
    now,                \* the wall clock, in ticks
    process_run,        \* which run of the process is executing
    hash_pan_pool,      \* the hash_pans the running process fetched
    field_name,         \* the field both calls resolve
    field_seed,         \* the row seed both calls are given
    call,               \* per call: row_index, chargeback_row_seeds, is_chargeback_table
    out,                \* per call: <<>> before the call, else <<the string returned>>
    \* two syntheses of the business logic from one seed (SpecLogic)
    logic_seed,         \* the seed both generators are initialised from
    business_logic,     \* per run: <<>> before the run, else <<the record returned>>
    \* one generate_thread_data and the uploads it leads to (SpecGen)
    gen_stage,          \* "start", "seeds", "chosen", "generated" or "spawned"
    gen_thread,         \* [job_index, thread_id] of the thread
    thread_row_seeds,   \* row_seeds
    thread_chargeback_seeds, \* chargeback_row_seeds
    thread_result,      \* ThreadResult: per table <<>> (None or not yet made) or <<batch>>
    upload_tasks,       \* the tables upload_thread_results spawned an upload for
    \* one typed column value of a row, converted in two runs (SpecColumn)
    column_type,        \* "int", "bigint", "smallint", "tinyint", "timestamp" or "decimal"
    literal,            \* the string the field resolver returned
    column_seed,        \* the row seed of the row
    column_clock,       \* chrono::Utc::now(), in ticks
    column,             \* per run: <<>> before the conversion, else <<the value stored>>
    \* one get_100_random_hash_pans call (SpecPool)
    pool_answers,       \* the answers of the get_item requests sent so far
    hash_pans,          \* the Vec hash_pans
    pool_result,        \* "running", or "ok" once Ok(hash_pans) is returned
    \* the partition date of the runs of one job (SpecDate)
    today,              \* chrono::Utc::now().naive_utc().date(), in days since 2020-01-01
    initial_load,       \* whether INITIAL_LOAD is "true"
    date_job_index,     \* the job_index of the job
    partition_dates,    \* the (year, month, day) each run of the job computed, in order
    \* the job submitter's array requests (SpecSubmit)
    target_tb,          \* TARGET_TB
    submit_pc,          \* "start", "queue", "arrays" or "done"
    queue_idx,          \* the for loop's queue_idx
    job_offset,         \* job_offset
    queue_job_offset,   \* queue_job_offset
    requests            \* requests: (current_array_size, queue, queue_job_offset)

storeVars == <<job_counter, has_active_jobs, active_jobs>>
jobVars == <<pc, partition_order, calls, returned, aborted_with, init_counter, restarts,
            store_errors>>
configVars == <<num_rows, chargeback_ppm>>
pipeVars == <<thread_state, stored, failed_uploads, s3_errors>>
retryVars == <<max_retries, upload, join_result>>
seedVars == <<env_num_rows, row_a, row_b, seed_a, seed_b>>
seqVars == <<order_of, seq_a, seq_b>>
fieldVars == <<now, process_run, hash_pan_pool, field_name, field_seed, call, out>>
logicVars == <<logic_seed, business_logic>>
genVars == <<gen_stage, gen_thread, thread_row_seeds, thread_chargeback_seeds, thread_result,
            upload_tasks>>
columnVars == <<column_type, literal, column_seed, column_clock, column>>
poolVars == <<pool_answers, hash_pans, pool_result>>
dateVars == <<today, initial_load, date_job_index, partition_dates>>
submitVars == <<target_tb, submit_pc, queue_idx, job_offset, queue_job_offset, requests>>
auxVars == <<columnVars, poolVars, dateVars, submitVars>>
dataVars == <<seqVars, fieldVars, logicVars, genVars, auxVars>>
vars == <<storeVars, jobVars, configVars, pipeVars, retryVars, seedVars, dataVars>>

EmptyMap == [k \in {} |-> 0]

\* map with key k set to v (SET active_jobs.#job_id = :partition_order)
MapSet(m, k, v) == [x \in (DOMAIN m) \cup {k} |-> IF x = k THEN v ELSE m[x]]

\* a removal that clears the whole map
MapRemoveAll(m, k) == [x \in {} |-> 0]

\* map without key k (REMOVE active_jobs.#job_id)
MapRemove(m, k) == [x \in (DOMAIN m) \ {k} |-> m[x]]

(* ------------------------------ initial states ------------------------ *)

\* the record of a date: untouched (counter 0), or as the earlier jobs of the
\* date left it when they completed
InitRecord(counter) ==
    /\ job_counter = counter
    /\ has_active_jobs = (counter > 0)
    /\ active_jobs = EmptyMap
    /\ init_counter = counter

\* no job has started; `errors` of the transient store failures are used up
InitJobs(errors) ==
    /\ pc = [j \in Jobs |-> "idle"]
    /\ partition_order = [j \in Jobs |-> 0]
    /\ calls = [j \in Jobs |-> 0]
    /\ returned = [j \in Jobs |-> <<>>]
    /\ aborted_with = [j \in Jobs |-> <<>>]
    /\ restarts = 0
    /\ store_errors = errors

\* no thread has run and nothing is uploaded
IdlePipeline ==
    /\ thread_state = [j \in Jobs |-> [t \in Threads |-> "idle"]]
    /\ stored = {}
    /\ failed_uploads = {}
    /\ s3_errors = 0

\* an upload_with_retry call before its first attempt
FreshUpload ==
    [status |-> "Pending", attempt |-> 0, sent |-> 0, log |-> <<>>, waits |-> <<>>,
     stored |-> FALSE]

IdleRetry ==
    /\ max_retries = UploadRetries
    /\ upload = [d \in Dests |-> FreshUpload]
    /\ join_result = "pending"

FirstRow == [job_index |-> 0, thread_id |-> 1, row_idx |-> 0]

IdleSeed ==
    /\ env_num_rows = <<>>
    /\ row_a = FirstRow
    /\ row_b = FirstRow
    /\ seed_a = <<>>
    /\ seed_b = <<>>

IdleSeq ==
    /\ order_of = [j \in 0..MaxJobIndex |-> j]
    /\ seq_a = <<>>
    /\ seq_b = <<>>

\* the two calls of the resolver that are compared
Calls == {"a", "b"}

\* the hash_pans of a run, as far as two runs can differ in them
HashPanPools == {<<"pan_1", "pan_2">>, <<"pan_3", "pan_4">>}

IdleField ==
    /\ now = 0
    /\ process_run = 1
    /\ hash_pan_pool = <<"pan_1", "pan_2">>
    /\ field_name = "sequence_number"
    /\ field_seed = RowSeedFactor
    /\ call = [c \in Calls |-> [row_index |-> 0, chargeback_row_seeds |-> {},
                                is_chargeback_table |-> FALSE]]
    /\ out = [c \in Calls |-> <<>>]

IdleLogic ==
    /\ logic_seed = 0
    /\ business_logic = [c \in Calls |-> <<>>]

IdleGen ==
    /\ gen_stage = "start"
    /\ gen_thread = [job_index |-> 0, thread_id |-> 1]
    /\ thread_row_seeds = <<>>
    /\ thread_chargeback_seeds = <<>>
    /\ thread_result = [name \in {TableNames[i] : i \in 1..Len(TableNames)} |-> <<>>]
    /\ upload_tasks = <<>>

IdleColumn ==
    /\ column_type = "int"
    /\ literal = <<"0">>
    /\ column_seed = 0
    /\ column_clock = 0
    /\ column = [c \in Calls |-> <<>>]

IdlePool ==
    /\ pool_answers = <<>>
    /\ hash_pans = <<>>
    /\ pool_result = "running"

IdleDate ==
    /\ today = 0
    /\ initial_load = TRUE
    /\ date_job_index = 0
    /\ partition_dates = <<>>

IdleSubmit ==
    /\ target_tb = 0
    /\ submit_pc = "start"
    /\ queue_idx = 0
    /\ job_offset = 0
    /\ queue_job_offset = 0
    /\ requests = <<>>

IdleAux == IdleColumn /\ IdlePool /\ IdleDate /\ IdleSubmit

IdleData == IdleSeq /\ IdleField /\ IdleLogic /\ IdleGen /\ IdleAux

(* ------------------- the partition record and the jobs ---------------- *)

\* a request may fail for a transient reason while the budget lasts
MayFail == store_errors < MaxStoreErrors

\* the job's request failed: `?` returns the error from main
Fail(j) ==
    /\ MayFail
    /\ store_errors' = store_errors + 1
    /\ pc' = [pc EXCEPT ![j] = "failed"]
    /\ partition_order' = [partition_order EXCEPT ![j] = 0]
    /\ UNCHANGED <<storeVars, calls, returned, aborted_with, init_counter, restarts>>

\* get_partition_job_order returns Ok(order) to main
ReturnOrder(j, order) ==
    /\ pc' = [pc EXCEPT ![j] = "threads"]
    /\ partition_order' = [partition_order EXCEPT ![j] = order]
    /\ returned' = [returned EXCEPT ![j] = Append(@, order)]

\* main up to the call of get_partition_job_order; a failed job is started again
\* by the batch service with the same job_id, and runs its pipeline from scratch
StartJob(j) ==
    /\ \/ pc[j] = "idle"
       \/ pc[j] = "failed" /\ restarts < MaxRestarts
    /\ restarts' = IF pc[j] = "failed" THEN restarts + 1 ELSE restarts
    /\ calls' = [calls EXCEPT ![j] = @ + 1]
    /\ pc' = [pc EXCEPT ![j] = "get"]
    /\ thread_state' = [thread_state EXCEPT ![j] = [t \in Threads |-> "idle"]]
    /\ stored' = {u \in stored : u[1] # j}
    /\ failed_uploads' = {u \in failed_uploads : u[1] # j}
    /\ UNCHANGED <<storeVars, partition_order, returned, aborted_with, init_counter,
                   store_errors, s3_errors, configVars, retryVars, seedVars, dataVars>>

\* GetItem that never looks the job up in active_jobs: every call takes a new order
GetItemNoReuse(j) ==
    /\ pc[j] = "get"
    /\ pc' = [pc EXCEPT ![j] = "add"]
    /\ UNCHANGED <<storeVars, partition_order, calls, returned, aborted_with,
                   init_counter, restarts, store_errors>>
    /\ UNCHANGED <<configVars, pipeVars, retryVars, seedVars, dataVars>>

\* 1. get_item: a job found in active_jobs reuses its order
GetItem(j) ==
    /\ pc[j] = "get"
    /\ \/ Fail(j)
       \/ /\ j \in DOMAIN active_jobs
          /\ ReturnOrder(j, active_jobs[j])
          /\ UNCHANGED <<storeVars, calls, aborted_with, init_counter, restarts,
                         store_errors>>
       \/ /\ j \notin DOMAIN active_jobs
          /\ pc' = [pc EXCEPT ![j] = "add"]
          /\ UNCHANGED <<storeVars, partition_order, calls, returned, aborted_with,
                         init_counter, restarts, store_errors>>
    /\ UNCHANGED <<configVars, pipeVars, retryVars, seedVars, dataVars>>

\* the response carries no job_counter (no UpdatedNew): unwrap_or(1) - 1
OrderFromCounterDefaulted(new_counter) == 1 - 1

\* the order computed from the ADD response (UpdatedNew): job_counter - 1
OrderFromCounter(new_counter) == new_counter - 1

\* an order taken from the counter without the ADD
AddCounterNoIncrement(j) ==
    /\ pc[j] = "add"
    /\ partition_order' = [partition_order EXCEPT ![j] = OrderFromCounter(job_counter + 1)]
    /\ pc' = [pc EXCEPT ![j] = "set"]
    /\ UNCHANGED <<storeVars, calls, returned, aborted_with, init_counter, restarts,
                   store_errors>>
    /\ UNCHANGED <<configVars, pipeVars, retryVars, seedVars, dataVars>>

\* 2. update_item ADD job_counter :inc, partition_order = job_counter - 1
AddCounter(j) ==
    /\ pc[j] = "add"
    /\ \/ Fail(j)
       \/ /\ job_counter' = job_counter + 1
          /\ partition_order' = [partition_order EXCEPT ![j] = OrderFromCounter(job_counter')]
          /\ pc' = [pc EXCEPT ![j] = "set"]
          /\ UNCHANGED <<has_active_jobs, active_jobs, calls, returned, aborted_with,
                         init_counter, restarts, store_errors>>
    /\ UNCHANGED <<configVars, pipeVars, retryVars, seedVars, dataVars>>

\* 3. update_item SET active_jobs.#job_id = :partition_order; the request is
\* rejected when the map active_jobs does not exist, and may fail otherwise
SetActiveJob(j) ==
    /\ pc[j] = "set"
    /\ \/ /\ has_active_jobs
          /\ active_jobs' = MapSet(active_jobs, j, partition_order[j])
          /\ ReturnOrder(j, partition_order[j])
          /\ UNCHANGED <<job_counter, has_active_jobs, calls, aborted_with, init_counter,
                         restarts, store_errors>>
       \/ /\ ~has_active_jobs
          /\ pc' = [pc EXCEPT ![j] = "create"]
          /\ UNCHANGED <<storeVars, partition_order, calls, returned, aborted_with,
                         init_counter, restarts, store_errors>>
       \/ /\ has_active_jobs
          /\ MayFail
          /\ store_errors' = store_errors + 1
          /\ pc' = [pc EXCEPT ![j] = "create"]
          /\ UNCHANGED <<storeVars, partition_order, calls, returned, aborted_with,
                         init_counter, restarts>>
    /\ UNCHANGED <<configVars, pipeVars, retryVars, seedVars, dataVars>>

\* assign_result.is_err(): update_item SET active_jobs = :empty_map
CreateActiveJobs(j) ==
    /\ pc[j] = "create"
    /\ \/ Fail(j)
       \/ /\ has_active_jobs' = TRUE
          /\ active_jobs' = EmptyMap
          /\ pc' = [pc EXCEPT ![j] = "retry"]
          /\ UNCHANGED <<job_counter, partition_order, calls, returned, aborted_with,
                         init_counter, restarts, store_errors>>
    /\ UNCHANGED <<configVars, pipeVars, retryVars, seedVars, dataVars>>

\* ... then the SET active_jobs.#job_id = :partition_order again
RetrySetActiveJob(j) ==
    /\ pc[j] = "retry"
    /\ \/ Fail(j)
       \/ /\ has_active_jobs
          /\ active_jobs' = MapSet(active_jobs, j, partition_order[j])
          /\ ReturnOrder(j, partition_order[j])
          /\ UNCHANGED <<job_counter, has_active_jobs, calls, aborted_with, init_counter,
                         restarts, store_errors>>
    /\ UNCHANGED <<configVars, pipeVars, retryVars, seedVars, dataVars>>

\* a collect that is content with one thread that returned Ok
SomeThreadOk(results) == \E t \in DOMAIN results : results[t] = "ok"

\* collect::<Result<Vec<_>, _>>()?: the job goes on only if every thread returned Ok
AllThreadsOk(results) == \A t \in DOMAIN results : results[t] = "ok"

\* a main that neither completes nor exits once its threads have returned
AfterThreadsStuck(j, results) == UNCHANGED <<pc, aborted_with, partition_order>>

\* what main does with the collected thread results: on to mark_job_completed,
\* or out of main with the error and without touching the partition record
AfterThreads(j, results) ==
    IF AllThreadsOk(results)
    THEN /\ pc' = [pc EXCEPT ![j] = "mark"]
         /\ aborted_with' = [aborted_with EXCEPT ![j] = <<>>]
         /\ UNCHANGED partition_order
    ELSE /\ pc' = [pc EXCEPT ![j] = "failed"]
         /\ aborted_with' = [aborted_with EXCEPT ![j] = <<partition_order[j]>>]
         /\ partition_order' = [partition_order EXCEPT ![j] = 0]

\* the worker threads of the job, seen from the partition record: each returns
\* Ok or the error of an upload that exhausted its retries
RunThreads(j) ==
    /\ pc[j] = "threads"
    /\ \E results \in [Threads -> {"ok", "err"}] : AfterThreads(j, results)
    /\ UNCHANGED <<storeVars, calls, returned, init_counter, restarts, store_errors>>
    /\ UNCHANGED <<configVars, pipeVars, retryVars, seedVars, dataVars>>

\* mark_job_completed: update_item REMOVE active_jobs.#job_id
MarkJobCompleted(j) ==
    /\ pc[j] = "mark"
    /\ \/ Fail(j)
       \/ /\ has_active_jobs
          /\ active_jobs' = MapRemove(active_jobs, j)
          /\ pc' = [pc EXCEPT ![j] = "done"]
          /\ partition_order' = [partition_order EXCEPT ![j] = 0]
          /\ UNCHANGED <<job_counter, has_active_jobs, calls, returned, aborted_with,
                         init_counter, restarts, store_errors>>
    /\ UNCHANGED <<configVars, pipeVars, retryVars, seedVars, dataVars>>

Init ==
    /\ \E counter \in {0, MaxInitCounter} : InitRecord(counter)
    /\ InitJobs(0)
    /\ num_rows = MaxRows
    /\ chargeback_ppm = DefaultChargebackPpm
    /\ IdlePipeline
    /\ IdleRetry
    /\ IdleSeed
    /\ IdleData

Next ==
    \E j \in Jobs :
        \/ StartJob(j)
        \/ GetItem(j)
        \/ AddCounter(j)
        \/ SetActiveJob(j)
        \/ CreateActiveJobs(j)
        \/ RetrySetActiveJob(j)
        \/ RunThreads(j)
        \/ MarkJobCompleted(j)

Spec == Init /\ [][Next]_vars

(* ----------------------- claims checked under Spec -------------------- *)

\* the jobs that have called get_partition_job_order
Callers == {j \in Jobs : calls[j] > 0}

\* every caller has made exactly one call and that call returned an order
EachCalledOnce == \A j \in Callers : calls[j] = 1 /\ Len(returned[j]) = 1

\* C1: N concurrent get_partition_job_order calls with N distinct job_ids on one
\* date return N pairwise-distinct orders forming the contiguous range that
\* starts at the date's counter (0..N-1 when the counter starts at 0).
C1_DistinctContiguousOrders ==
    EachCalledOnce =>
        /\ \A j, k \in Callers : j # k => returned[j][1] # returned[k][1]
        /\ {returned[j][1] : j \in Callers} =
               init_counter..(init_counter + Cardinality(Callers) - 1)

\* every job has its order from one call each, the calls overlapped (all are
\* still in their pipelines) and the later job id got the smaller order
C1_Witness ==
    /\ Callers = Jobs
    /\ EachCalledOnce
    /\ \A j \in Jobs : pc[j] = "threads"
    /\ returned[NumJobs][1] < returned[1][1]

\* C2: a job that held order k when an upload exhausted its retries and is
\* restarted with the same job_id still finds active_jobs[job_id] = k, and the
\* restarted get_partition_job_order returns k, whatever the other jobs did.
C2_RestartKeepsOrder ==
    \A j \in Jobs :
        aborted_with[j] # <<>> =>
            /\ pc[j] = "get" => (j \in DOMAIN active_jobs /\ active_jobs[j] = aborted_with[j][1])
            /\ pc[j] = "threads" => partition_order[j] = aborted_with[j][1]

\* only job j has ever run, and each of its calls returned an order
OnlyCaller(j) ==
    /\ Callers = {j}
    /\ calls[j] = Len(returned[j])

\* C3: get_partition_job_order called twice in succession for the same job,
\* no completion in between, returns the same order both times and the
\* counter has advanced by exactly 1 over the two calls.
C3_AssignIdempotent ==
    \A j \in Jobs :
        OnlyCaller(j) =>
            /\ \A i \in 1..Len(returned[j]) : returned[j][i] = returned[j][1]
            /\ job_counter = init_counter + 1

\* the second call of the only running job has returned
C3_Witness ==
    \E j \in Jobs : OnlyCaller(j) /\ calls[j] = 2 /\ pc[j] = "threads"

\* a step of get_partition_job_order made by job j
AssignStep(j) ==
    \/ GetItem(j)
    \/ AddCounter(j)
    \/ SetActiveJob(j)
    \/ CreateActiveJobs(j)
    \/ RetrySetActiveJob(j)

\* active_jobs[k] is the same (present with the same order, or absent) after the step
SameEntry(k) ==
    /\ (k \in DOMAIN active_jobs) = (k \in DOMAIN active_jobs')
    /\ k \in DOMAIN active_jobs => active_jobs'[k] = active_jobs[k]

\* C4: get_partition_job_order for job j leaves active_jobs[k] of every other
\* job k as it was, on every path including the create-then-retry fallback.
C4_AssignKeepsOtherEntries ==
    [][\A j \in Jobs : AssignStep(j) => \A k \in Jobs \ {j} : SameEntry(k)]_vars

\* where a job stands after its partition-store request was answered without
\* an error: the point read, the counter increment, the upsert of its entry
AfterAnswer(at) ==
    CASE at = "get" -> {"threads", "add"}
      [] at = "add" -> {"set"}
      [] at = "set" -> {"threads"}

\* the request job j had outstanding returned an error in this step
AssignRequestFailed(j) ==
    /\ pc[j] \in {"get", "add", "set"}
    /\ pc'[j] # pc[j]
    /\ pc'[j] \notin AfterAnswer(pc[j])

\* C21: when a partition-store request of get_partition_job_order fails (the
\* point read, the counter increment or the upsert of active_jobs[job_id]),
\* the call returns the error and the job exits: nothing is recovered locally
\* and no data is generated or uploaded.
C21_StoreFailureAbortsJob ==
    [][\A j \in Jobs : AssignRequestFailed(j) => pc'[j] = "failed"]_vars

\* job j's mark_job_completed returned Ok in this step
Completes(j) == pc[j] = "mark" /\ pc'[j] = "done"

\* C24: mark_job_completed(date, job_id) removes active_jobs[job_id] and nothing
\* else: job_counter and every other job's entry stay as they were, so once
\* every job that was assigned an order on the date has completed, active_jobs
\* is empty and only the counter is left.
C24_CompleteRemovesOwnEntryOnly ==
    /\ [][\A j \in Jobs :
            Completes(j) =>
                /\ j \notin DOMAIN active_jobs'
                /\ job_counter' = job_counter
                /\ \A k \in Jobs \ {j} : SameEntry(k)]_vars
    /\ []((Callers # {} /\ \A j \in Callers : pc[j] = "done") =>
              (active_jobs = EmptyMap /\ job_counter >= init_counter + Cardinality(Callers)))

\* one job has completed while the entry of another, assigned later, is in the map
C24_Witness ==
    \E j, k \in Jobs :
        /\ pc[j] = "done"
        /\ pc[k] = "threads"
        /\ k \in DOMAIN active_jobs
        /\ j \notin DOMAIN active_jobs
        /\ job_counter = init_counter + 2

\* C28: in every reachable state of the per-date record, under any
\* interleaving of get_partition_job_order and mark_job_completed calls, the
\* orders in active_jobs are pairwise distinct across job_ids and each lies in
\* [0, job_counter).
C28_ActiveOrdersDistinctBelowCounter ==
    /\ \A j, k \in DOMAIN active_jobs : j # k => active_jobs[j] # active_jobs[k]
    /\ \A j \in DOMAIN active_jobs : 0 <= active_jobs[j] /\ active_jobs[j] < job_counter

\* both jobs hold an order in active_jobs, on a date earlier jobs have used
C28_Witness ==
    /\ DOMAIN active_jobs = Jobs
    /\ init_counter > 0
    /\ job_counter > init_counter + NumJobs

(* --------------------- the pipeline of one job (SpecJob) --------------- *)

\* total_chargebacks_needed = (num_rows as f64 * chargeback_percentage) as usize
TotalChargebacksNeeded(rows, ppm) == (rows * ppm) \div 1000000

\* the upload tasks of a thread: four, and the two chargeback tables when
\* chargeback_row_seeds is not empty
NumTables(rows, ppm) == IF TotalChargebacksNeeded(rows, ppm) > 0 THEN 6 ELSE 4

\* S3's answers to the attempts of one upload_with_retry call (TRUE: Ok)
Responses(max) == [1..max -> BOOLEAN]

RECURSIVE RetryLoop(_, _, _)
\* for attempt in 0..max_retries, from `attempt` on
RetryLoop(resp, attempt, max) ==
    IF resp[attempt + 1]
    THEN [ok |-> TRUE, attempts |-> attempt + 1, errors |-> attempt]
    ELSE IF attempt = max - 1
         THEN [ok |-> FALSE, attempts |-> attempt + 1, errors |-> attempt + 1]
         ELSE RetryLoop(resp, attempt + 1, max)

\* upload_with_retry, given S3's answers
UploadWithRetry(resp, max) == RetryLoop(resp, 0, max)

\* tokio::try_join!(main, specialized)?: Ok only if both uploads returned Ok
TryJoin(main, specialized) == main.ok /\ specialized.ok

\* upload_to_respective_buckets, given S3's answers for the two buckets. When
\* one upload is out of retries the other future is dropped: its object is in
\* its bucket only if its put_object had got through by then (`landed`)
UploadToRespectiveBuckets(resp_main, resp_spec, landed) ==
    LET main == UploadWithRetry(resp_main, UploadRetries)
        spec == UploadWithRetry(resp_spec, UploadRetries)
        ok == TryJoin(main, spec)
        result == [main |-> main, specialized |-> spec]
    IN  [ok |-> ok,
         stored |-> {d \in Dests : result[d].ok /\ (landed \/ (main.ok /\ spec.ok))},
         failed |-> {d \in Dests : ~result[d].ok},
         errors |-> main.errors + spec.errors]

\* what one upload task can come to
TableOutcomes ==
    {UploadToRespectiveBuckets(rm, rs, l) :
        rm \in Responses(UploadRetries), rs \in Responses(UploadRetries), l \in BOOLEAN}

\* the uploads of tasks from..to of thread t of job j
Uploads(j, t, from, to) == {<<j, t, TableNames[i], d>> : i \in from..to, d \in Dests}

\* the uploads ds of task i of thread t of job j
UploadsOf(j, t, i, ds) == {<<j, t, TableNames[i], d>> : d \in ds}

\* an await loop that drops the tasks' errors
AwaitIgnoringErrors(task_ok) == TRUE

\* task.await??: the loop goes on to the next task only after an Ok
AwaitOk(task_ok) == task_ok

RECURSIVE AwaitTasks(_, _, _, _, _, _)
\* for task in upload_tasks { task.await??; } from task i on; `running` are the
\* ways the tasks before i can all have returned Ok. The first error ends the
\* thread; the runtime is dropped with the later tasks wherever they are.
AwaitTasks(j, t, i, n, budget, running) ==
    IF i > n
    THEN {[o EXCEPT !.res = "ok"] : o \in running}
    ELSE LET steps == {s \in running \X TableOutcomes : s[1].errors + s[2].errors <= budget}
             after(s) == [res |-> "run",
                          stored |-> s[1].stored \cup UploadsOf(j, t, i, s[2].stored),
                          failed |-> s[1].failed \cup UploadsOf(j, t, i, s[2].failed),
                          errors |-> s[1].errors + s[2].errors]
             on == {after(s) : s \in {x \in steps : AwaitOk(x[2].ok)}}
             off == UNION {{[after(s) EXCEPT !.res = "err", !.stored = @ \cup late] :
                               late \in SUBSET Uploads(j, t, i + 1, n)} :
                           s \in {x \in steps : ~AwaitOk(x[2].ok)}}
         IN  off \cup AwaitTasks(j, t, i + 1, n, budget, on)

\* upload_thread_results of thread t of job j with n upload tasks
UploadThreadResults(j, t, n, budget) ==
    AwaitTasks(j, t, 1, n, budget,
               {[res |-> "run", stored |-> {}, failed |-> {}, errors |-> 0]})

\* one worker thread: generate_thread_data, then upload_thread_results
ThreadRun(j, t) ==
    /\ pc[j] = "threads"
    /\ thread_state[j][t] = "idle"
    /\ \E o \in UploadThreadResults(j, t, NumTables(num_rows, chargeback_ppm),
                                    MaxS3Errors - s3_errors) :
          /\ thread_state' = [thread_state EXCEPT ![j][t] = o.res]
          /\ stored' = stored \cup o.stored
          /\ failed_uploads' = failed_uploads \cup o.failed
          /\ s3_errors' = s3_errors + o.errors
    /\ UNCHANGED <<storeVars, jobVars, configVars, retryVars, seedVars, dataVars>>

\* .collect::<Result<Vec<_>, _>>()?: every thread has returned, or one has
\* returned an error and the threads not yet started are skipped
CollectThreads(j) ==
    /\ pc[j] = "threads"
    /\ \/ \A t \in Threads : thread_state[j][t] # "idle"
       \/ \E t \in Threads : thread_state[j][t] = "err"
    /\ AfterThreads(j, thread_state[j])
    /\ UNCHANGED <<storeVars, calls, returned, init_counter, restarts, store_errors>>
    /\ UNCHANGED <<configVars, pipeVars, retryVars, seedVars, dataVars>>

\* the job SpecJob follows
TheJob == CHOOSE j \in Jobs : \A k \in Jobs : j <= k

\* CHARGEBACK_PERCENTAGE: the default, and one that selects rows of MaxRows
ChargebackPpmSamples == {DefaultChargebackPpm, 500000}

\* the first job of a date; the partition store answers every request
InitJob ==
    /\ InitRecord(0)
    /\ InitJobs(MaxStoreErrors)
    /\ num_rows = MaxRows
    /\ chargeback_ppm \in ChargebackPpmSamples
    /\ IdlePipeline
    /\ IdleRetry
    /\ IdleSeed
    /\ IdleData

NextJob ==
    \/ StartJob(TheJob)
    \/ GetItem(TheJob)
    \/ AddCounter(TheJob)
    \/ SetActiveJob(TheJob)
    \/ CreateActiveJobs(TheJob)
    \/ RetrySetActiveJob(TheJob)
    \/ \E t \in Threads : ThreadRun(TheJob, t)
    \/ CollectThreads(TheJob)
    \/ MarkJobCompleted(TheJob)

SpecJob == InitJob /\ [][NextJob]_vars

(* ---------------------- claims checked under SpecJob ------------------ *)

\* the tables a thread has to upload, by name
ExpectedTables ==
    IF TotalChargebacksNeeded(num_rows, chargeback_ppm) = 0
    THEN {"authorization", "authorization_hash", "clearing", "clearing_hash"}
    ELSE {"authorization", "authorization_hash", "clearing", "clearing_hash",
          "chargeback", "chargeback_hash"}

\* every table of thread t of job j is in both of its buckets
AllStored(j, t) ==
    \A name \in ExpectedTables : \A d \in Dests : <<j, t, name, d>> \in stored

\* an upload of thread t of job j ran out of retries
UploadFailed(j, t) == \E u \in failed_uploads : u[1] = j /\ u[2] = t

\* C5: mark_job_completed is called in a job run only if every worker thread
\* returned Ok with every upload acknowledged; if a thread or an upload fails
\* the job exits with the error and active_jobs[job_id] is not removed.
C5_CompletionOnlyAfterFullSuccess ==
    LET j == TheJob
    IN  /\ pc[j] \in {"mark", "done"} =>
              \A t \in Threads : thread_state[j][t] = "ok" /\ AllStored(j, t)
        /\ (\E t \in Threads : thread_state[j][t] = "err" \/ UploadFailed(j, t)) =>
              /\ pc[j] \in {"threads", "failed"}
              /\ j \in DOMAIN active_jobs
              /\ active_jobs[j] = returned[j][Len(returned[j])]

\* a run in which an upload was retried has completed and removed its entry
C5_Witness ==
    /\ pc[TheJob] = "done"
    /\ TheJob \notin DOMAIN active_jobs
    /\ s3_errors > 0
    /\ \A t \in Threads : AllStored(TheJob, t)

\* C6: a worker thread returns Ok only if every generated table (4 without
\* chargeback seeds, 6 with) is acknowledged at both destinations; an upload
\* that is out of retries at either destination makes the thread return Err.
C6_ThreadOkOnlyIfAllUploaded ==
    \A t \in Threads :
        /\ thread_state[TheJob][t] = "ok" => AllStored(TheJob, t)
        /\ UploadFailed(TheJob, t) => thread_state[TheJob][t] = "err"

\* one thread returned Ok with its six tables in both buckets while another
\* returned Err after an upload ran out of retries
C6_Witness ==
    /\ ExpectedTables = {TableNames[i] : i \in 1..6}
    /\ \E t, u \in Threads :
          /\ thread_state[TheJob][t] = "ok" /\ AllStored(TheJob, t)
          /\ thread_state[TheJob][u] = "err" /\ UploadFailed(TheJob, u)

\* C7: when a job run has ended, with success or failure, no table payload of
\* the run is stored at exactly one of its two destinations.
C7_NoPartialCopyAfterRun ==
    pc[TheJob] \in {"done", "failed"} =>
        \A t \in Threads : \A name \in ExpectedTables :
            (<<TheJob, t, name, "main">> \in stored)
                = (<<TheJob, t, name, "specialized">> \in stored)

(* -------- one upload_to_respective_buckets call (SpecRetry) ------------ *)

\* a retry loop that takes the attempt after the last for the last
IsLastAttemptOffByOne(attempt, max) == attempt = max

\* if attempt == max_retries - 1
IsLastAttempt(attempt, max) == attempt = max - 1

\* a retry loop that sleeps the same time before every retry
BackoffConstant(attempt) == BackoffBaseMs

\* Duration::from_millis(1000 * (2_u64.pow(attempt)))
BackoffMs(attempt) == BackoffBaseMs * (2 ^ attempt)

OtherDest(d) == CHOOSE e \in Dests : e # d

\* for attempt in 0..max_retries: s3_client.put_object()...send()
SendPut(d) ==
    /\ join_result = "pending"
    /\ upload[d].status = "Pending"
    /\ upload[d].attempt < max_retries
    /\ upload' = [upload EXCEPT ![d].status = "Uploading", ![d].sent = @ + 1]
    /\ UNCHANGED <<max_retries, join_result>>
    /\ UNCHANGED <<storeVars, jobVars, configVars, pipeVars, seedVars, dataVars>>

\* Ok(_) => return Ok(()); try_join! returns Ok once both uploads have
PutOk(d) ==
    /\ join_result = "pending"
    /\ upload[d].status = "Uploading"
    /\ upload' = [upload EXCEPT ![d].status = "Succeeded", ![d].log = Append(@, TRUE),
                                ![d].stored = TRUE]
    /\ join_result' = IF upload[OtherDest(d)].status = "Succeeded" THEN "ok" ELSE "pending"
    /\ UNCHANGED max_retries
    /\ UNCHANGED <<storeVars, jobVars, configVars, pipeVars, seedVars, dataVars>>

\* Err(e) => on the last attempt return Err, which try_join! returns at once,
\* dropping the other upload (a put_object in flight may still get through);
\* otherwise sleep the backoff and go round the loop
PutErr(d) ==
    /\ join_result = "pending"
    /\ upload[d].status = "Uploading"
    /\ IF IsLastAttempt(upload[d].attempt, max_retries)
       THEN /\ join_result' = "err"
            /\ \E landed \in BOOLEAN :
                  LET e == OtherDest(d)
                      dropped == IF upload[e].status \in {"Pending", "Uploading"}
                                 THEN [upload[e] EXCEPT
                                         !.status = "Dropped",
                                         !.stored = (upload[e].status = "Uploading" /\ landed)]
                                 ELSE upload[e]
                  IN  upload' = [upload EXCEPT ![d].status = "Failed",
                                               ![d].log = Append(@, FALSE),
                                               ![e] = dropped]
       ELSE /\ upload' = [upload EXCEPT ![d].status = "Pending",
                                        ![d].log = Append(@, FALSE),
                                        ![d].attempt = @ + 1,
                                        ![d].waits = Append(@, BackoffMs(upload[d].attempt))]
            /\ UNCHANGED join_result
    /\ UNCHANGED max_retries
    /\ UNCHANGED <<storeVars, jobVars, configVars, pipeVars, seedVars, dataVars>>

InitRetry ==
    /\ InitRecord(0)
    /\ InitJobs(0)
    /\ num_rows = MaxRows
    /\ chargeback_ppm = DefaultChargebackPpm
    /\ IdlePipeline
    /\ max_retries \in 1..MaxRetries
    /\ upload = [d \in Dests |-> FreshUpload]
    /\ join_result = "pending"
    /\ IdleSeed
    /\ IdleData

NextRetry ==
    \E d \in Dests :
        \/ SendPut(d)
        \/ PutOk(d)
        \/ PutErr(d)

SpecRetry == InitRetry /\ [][NextRetry]_vars

(* --------------------- claims checked under SpecRetry ----------------- *)

\* the first n answers were errors
AllErrors(log, n) == \A i \in 1..n : ~log[i]

\* C8: upload_with_retry with max_retries = m makes attempts until the first
\* acknowledgement and never more than m: a-1 errors then an Ok return success
\* after exactly a attempts, m errors return the failure to the caller, and no
\* attempt follows either.
C8_RetryUntilAckAtMostMax ==
    \A d \in Dests :
        LET u == upload[d]
            n == Len(u.log)
        IN  /\ u.sent <= max_retries
            /\ n <= u.sent /\ u.sent <= n + 1
            /\ AllErrors(u.log, n - 1)
            /\ u.status = "Succeeded" <=> (n > 0 /\ u.log[n])
            /\ u.status = "Succeeded" => u.sent = n
            /\ u.status = "Failed" <=> (n = max_retries /\ AllErrors(u.log, n))
            /\ u.status = "Failed" => (u.sent = max_retries /\ join_result = "err")

\* two errors, then the third attempt is acknowledged
C8_Witness ==
    \E d \in Dests :
        /\ upload[d].status = "Succeeded"
        /\ upload[d].log = <<FALSE, FALSE, TRUE>>
        /\ upload[d].sent = 3

\* the transitions of the upload state machine
UploadTransitions ==
    {<<"Pending", "Uploading">>, <<"Uploading", "Succeeded">>, <<"Uploading", "Pending">>,
     <<"Uploading", "Failed">>}

\* C25: an upload moves only Pending->Uploading (attempt), Uploading->Succeeded
\* (ack), Uploading->Pending (error with attempts left) and Uploading->Failed
\* (error on the last allowed attempt); Succeeded and Failed are terminal; the
\* wait before the retry that follows failed attempt n (0-based) is 1000 ms *
\* 2^n, and no wait follows the last failed attempt. (An upload whose sibling
\* failed is dropped by try_join! where it stands and moves no more.)
C25_UploadStateMachine ==
    /\ [][\A d \in Dests :
            LET u == upload[d]
                v == upload'[d]
            IN  /\ u.status \in {"Succeeded", "Failed", "Dropped"} => v = u
                /\ (v.status # u.status /\ v.status # "Dropped") =>
                      <<u.status, v.status>> \in UploadTransitions
                /\ (u.status = "Uploading" /\ v.status = "Pending") =>
                      /\ u.attempt + 1 < max_retries
                      /\ v.attempt = u.attempt + 1
                      /\ v.waits = Append(u.waits, 1000 * (2 ^ u.attempt))
                /\ (u.status = "Uploading" /\ v.status = "Failed") =>
                      /\ u.attempt + 1 = max_retries
                      /\ v.waits = u.waits
                /\ (u.status = "Uploading" /\ v.status = "Succeeded") => v.waits = u.waits
                /\ (u.status = "Pending" /\ v.status = "Uploading") => v.waits = u.waits]_vars
    /\ [](\A d \in Dests :
            /\ upload[d].status \in {"Pending", "Uploading", "Succeeded", "Failed", "Dropped"}
            /\ Len(upload[d].waits) = upload[d].attempt
            /\ \A i \in 1..Len(upload[d].waits) : upload[d].waits[i] = 1000 * (2 ^ (i - 1))
            /\ upload[d].status = "Failed" => Len(upload[d].waits) = max_retries - 1)

\* an upload failed on its third attempt after waiting 1000 ms and 2000 ms
C25_Witness ==
    \E d \in Dests :
        /\ max_retries = 3
        /\ upload[d].status = "Failed"
        /\ upload[d].waits = <<1000, 2000>>
        /\ upload[d].sent = 3

(* ------------- a job run, attempt by attempt (SpecRun) ----------------- *)

\* SpecRun follows one job from main's first partition-store call to its exit,
\* with every put_object attempt a step of its own. The threads and the upload
\* tasks of a thread are taken one after the other: gen_thread is the thread
\* at work, upload_tasks its tasks not yet awaited, upload the call in progress.

InitRun ==
    /\ InitRecord(0)
    /\ InitJobs(0)
    /\ num_rows = MaxRows
    /\ chargeback_ppm \in ChargebackPpmSamples
    /\ IdlePipeline
    /\ IdleRetry
    /\ IdleSeed
    /\ IdleData

UnchangedByUploads ==
    UNCHANGED <<storeVars, jobVars, configVars, stored, failed_uploads, s3_errors, max_retries,
                seedVars, seqVars, fieldVars, logicVars, thread_row_seeds,
                thread_chargeback_seeds, thread_result, auxVars>>

\* thread t generates its tables and spawns its upload tasks
SpawnThreadUploads(t) ==
    /\ pc[TheJob] = "threads"
    /\ gen_stage = "start"
    /\ thread_state[TheJob][t] = "idle"
    /\ \A u \in Threads : thread_state[TheJob][u] # "err"
    /\ gen_stage' = "spawned"
    /\ gen_thread' = [job_index |-> 0, thread_id |-> t]
    /\ upload_tasks' = SubSeq(TableNames, 1, NumTables(num_rows, chargeback_ppm))
    /\ upload' = [d \in Dests |-> FreshUpload]
    /\ join_result' = "pending"
    /\ UNCHANGED thread_state
    /\ UnchangedByUploads

\* task.await??: on Ok the loop goes to the next task and after the last the
\* thread returns Ok; on Err the thread returns the error
AwaitTask ==
    /\ gen_stage = "spawned"
    /\ join_result # "pending"
    /\ LET t == gen_thread.thread_id
           ended(res) ==
               /\ thread_state' = [thread_state EXCEPT ![TheJob][t] = res]
               /\ gen_stage' = "start"
               /\ upload_tasks' = <<>>
       IN  IF AwaitOk(join_result = "ok")
           THEN IF Len(upload_tasks) = 1
                THEN ended("ok")
                ELSE /\ upload_tasks' = Tail(upload_tasks)
                     /\ UNCHANGED <<thread_state, gen_stage>>
           ELSE ended("err")
    /\ upload' = [d \in Dests |-> FreshUpload]
    /\ join_result' = "pending"
    /\ UNCHANGED gen_thread
    /\ UnchangedByUploads

\* a put_object attempt of the call in progress, or its answer
UploadStep ==
    /\ pc[TheJob] = "threads"
    /\ gen_stage = "spawned"
    /\ \E d \in Dests : SendPut(d) \/ PutOk(d) \/ PutErr(d)

\* the steps of a run that wait for a partition-store call or an upload
\* attempt to return, and the steps main takes on their results
RunProgress ==
    \/ GetItem(TheJob)
    \/ AddCounter(TheJob)
    \/ SetActiveJob(TheJob)
    \/ CreateActiveJobs(TheJob)
    \/ RetrySetActiveJob(TheJob)
    \/ \E t \in Threads : SpawnThreadUploads(t)
    \/ UploadStep
    \/ AwaitTask
    \/ gen_stage = "start" /\ CollectThreads(TheJob)
    \/ MarkJobCompleted(TheJob)

NextRun ==
    \/ StartJob(TheJob)
    \/ RunProgress

\* every call the run is waiting for returns in the end
SpecRun == InitRun /\ [][NextRun]_vars /\ WF_vars(RunProgress)

\* C26: a job run terminates: if every partition-store call and every upload
\* attempt returns, the run ends in mark_job_completed and a successful exit or
\* in an exit with an error, and no upload makes more than 3 attempts.
C26_JobRunTerminates ==
    /\ (pc[TheJob] = "get") ~> (pc[TheJob] \in {"done", "failed"})
    /\ [](\A d \in Dests : upload[d].sent <= 3)

\* a first run that exited with the error of an upload out of attempts
C26_Witness ==
    /\ pc[TheJob] = "failed"
    /\ calls[TheJob] = 1
    /\ store_errors = 0
    /\ \E t \in Threads : thread_state[TheJob][t] = "err"

(* ---------------------- the row seeds (SpecSeed) ---------------------- *)

\* NUM_OF_ROWS .unwrap_or_else(|_| "250000") .parse::<usize>() .unwrap_or(250000)
ParseNumRows(env) == IF env = <<>> THEN DefaultNumRows ELSE env[1]

\* a row seed whose thread seed adds the job index without its factor
RowSeedUnscaledJob(job_index, thread_id, row_idx) ==
    (job_index + thread_id) * RowSeedFactor + row_idx

\* thread_seed = job_index * 1000 + thread_id; row seed = thread_seed * 100000
\* + row_idx (u64: for the indices used here the value stays far below 2^64)
RowSeed(job_index, thread_id, row_idx) ==
    LET thread_seed == job_index * ThreadSeedFactor + thread_id
    IN  thread_seed * RowSeedFactor + row_idx

\* thread ids: below, of and at the end of the range the seed keeps apart
ThreadIdSamples == {0} \cup Threads \cup {ThreadSeedFactor - 1}

\* row indices: the ends of the range the seed keeps apart and of the rows a thread has
RowIdxSamples ==
    {0, 1, RowSeedFactor - 1, RowSeedFactor, DefaultNumRows - 1, SubmittedNumRows - 1}

Rows == [job_index : 0..MaxJobIndex, thread_id : ThreadIdSamples, row_idx : RowIdxSamples]

InitSeed ==
    /\ InitRecord(0)
    /\ InitJobs(0)
    /\ num_rows = MaxRows
    /\ chargeback_ppm = DefaultChargebackPpm
    /\ IdlePipeline
    /\ IdleRetry
    /\ env_num_rows \in {<<>>, <<SubmittedNumRows>>}
    /\ row_a \in Rows
    /\ row_b \in Rows
    /\ seed_a = <<>>
    /\ seed_b = <<>>
    /\ IdleData

\* (0..num_rows).map(|row_idx| thread_seed * 100000 + (row_idx as u64)), for two rows
DeriveRowSeeds ==
    /\ seed_a = <<>>
    /\ seed_a' = <<RowSeed(row_a.job_index, row_a.thread_id, row_a.row_idx)>>
    /\ seed_b' = <<RowSeed(row_b.job_index, row_b.thread_id, row_b.row_idx)>>
    /\ UNCHANGED <<env_num_rows, row_a, row_b>>
    /\ UNCHANGED <<storeVars, jobVars, configVars, pipeVars, retryVars, dataVars>>

NextSeed == DeriveRowSeeds

SpecSeed == InitSeed /\ [][NextSeed]_vars

(* ---------------------- claims checked under SpecSeed ----------------- *)

SeedsDerived == seed_a # <<>> /\ seed_b # <<>>

\* the row is within the bounds the seed formula assumes
WithinSeedBounds(r) == r.thread_id < ThreadSeedFactor /\ r.row_idx < RowSeedFactor

\* C9: (job_index*1000 + thread_id)*100000 + row_index is injective for
\* thread_id < 1000 and row_index < 100000: distinct triples, distinct seeds.
C9_SeedInjectiveWithinBounds ==
    (SeedsDerived /\ row_a # row_b /\ WithinSeedBounds(row_a) /\ WithinSeedBounds(row_b))
        => seed_a[1] # seed_b[1]

\* the last row of the last thread of one job and the first row of the next
\* job: different triples within the bounds, neighbouring seeds
C9_Witness ==
    /\ SeedsDerived
    /\ WithinSeedBounds(row_a) /\ WithinSeedBounds(row_b)
    /\ row_a.job_index = row_b.job_index + 1
    /\ row_a.thread_id # row_b.thread_id
    /\ seed_a[1] = seed_b[1] + 1

\* a row generate_thread_data produces: thread 1..=3, row_idx in 0..num_rows
Produced(r) == r.thread_id \in Threads /\ r.row_idx < ParseNumRows(env_num_rows)

\* C10: over the rows a run produces (thread_id in 1..=3, row_index below the
\* num_rows taken from NUM_OF_ROWS or its default) distinct triples have
\* distinct row seeds.
C10_SeedsUniqueOverProducedRows ==
    (SeedsDerived /\ row_a # row_b /\ Produced(row_a) /\ Produced(row_b))
        => seed_a[1] # seed_b[1]

(* ------------------ the sequence numbers (SpecSeq) -------------------- *)

\* 1000000000000001, the first sequence number, in decimal digits
SequenceBase == <<1, 0, 0, 0, 0, 0, 0, 0, 0, 0, 0, 0, 0, 0, 0, 1>>

\* the decimal digits of a number above 0
RECURSIVE Digits(_)
Digits(n) == IF n = 0 THEN <<>> ELSE Append(Digits(n \div 10), n % 10)

\* 1000000000000001 + n, then to_string(): decimal addition on the digits
RECURSIVE AddDecimal(_, _)
AddDecimal(digits, n) ==
    IF digits = <<>>
    THEN Digits(n)
    ELSE LET sum == digits[Len(digits)] + n
         IN  Append(AddDecimal(SubSeq(digits, 1, Len(digits) - 1), sum \div 10), sum % 10)

\* NUM_OF_ROWS .unwrap_or("250000") .parse::<i64>() .unwrap_or(250000)
SequenceNumRows(env) == IF env = <<>> THEN DefaultNumRows ELSE env[1]

\* generate_partition_sequence_number
GeneratePartitionSequenceNumber(row_index, partition_job_order, thread_id, n_threads, env) ==
    LET rows == SequenceNumRows(env)
        job_base == partition_job_order * (rows * n_threads)
        thread_offset == (thread_id - 1) * rows
    IN  AddDecimal(SequenceBase, job_base + thread_offset + row_index)

\* let row_index = (row_seed % 100000) as i64
RowIndexFromSeed(row_seed) == row_seed % SeedRowModulus

\* the resolver's "sequence_number" arm
SequenceNumberField(row_seed, row_index, partition_job_order, thread_id, n_threads, is_chargeback_table, env) ==
    IF is_chargeback_table
    THEN GeneratePartitionSequenceNumber(RowIndexFromSeed(row_seed), partition_job_order,
                                         thread_id, n_threads, env)
    ELSE GeneratePartitionSequenceNumber(row_index, partition_job_order, thread_id,
                                         n_threads, env)

\* let is_chargeback_table = chargeback_row_seeds.is_empty()
IsChargebackTable(chargeback_row_seeds) == chargeback_row_seeds = {}

\* the chargeback_row_seeds of the thread of row r, as far as row r can tell:
\* empty when no chargeback is needed, else holding r's seed if choose_multiple
\* picked it and the seed of another row of the thread if not
ThreadChargebackSeeds(r, picked, env, ppm) ==
    LET rows == ParseNumRows(env)
        other == (r.row_idx + 1) % rows
    IN  IF TotalChargebacksNeeded(rows, ppm) = 0 THEN {}
        ELSE IF picked THEN {RowSeed(r.job_index, r.thread_id, r.row_idx)}
        ELSE {RowSeed(r.job_index, r.thread_id, other)}

\* the sequence_number of row r in the authorization and clearing batches
\* (generate_batch_with_seeds with the thread's chargeback_row_seeds) and, if
\* its seed was picked, in the chargeback batch (generate_batch_with_seeds with
\* &[] and the position among the chargeback seeds as row_index)
RowSequenceNumbers(r, picked, env, ppm) ==
    LET row_seed == RowSeed(r.job_index, r.thread_id, r.row_idx)
        order == order_of[r.job_index]
        seeds == ThreadChargebackSeeds(r, picked, env, ppm)
        main == SequenceNumberField(row_seed, r.row_idx, order, r.thread_id, num_threads,
                                    IsChargebackTable(seeds), env)
    IN  [authorization |-> main,
         clearing |-> main,
         chargeback |-> IF row_seed \in seeds
                        THEN <<SequenceNumberField(row_seed, 0, order, r.thread_id,
                                                   num_threads, IsChargebackTable({}), env)>>
                        ELSE <<>>]

\* the orders the jobs of a date may hold: one each, all different
PartitionOrders ==
    {f \in [0..MaxJobIndex -> 0..MaxJobIndex] :
        \A j, k \in 0..MaxJobIndex : j # k => f[j] # f[k]}

\* the rows a run with this NUM_OF_ROWS produces
ProducedRows(env) ==
    {r \in Rows : r.thread_id \in Threads /\ r.row_idx < ParseNumRows(env)}

InitSeq ==
    /\ InitRecord(0)
    /\ InitJobs(0)
    /\ num_rows = MaxRows
    /\ chargeback_ppm \in {0, DefaultChargebackPpm}
    /\ IdlePipeline
    /\ IdleRetry
    /\ env_num_rows \in {<<>>, <<SubmittedNumRows>>}
    /\ row_a \in ProducedRows(env_num_rows)
    /\ row_b \in ProducedRows(env_num_rows)
    /\ seed_a = <<>>
    /\ seed_b = <<>>
    /\ order_of \in PartitionOrders
    /\ seq_a = <<>>
    /\ seq_b = <<>>
    /\ IdleField
    /\ IdleLogic
    /\ IdleGen
    /\ IdleAux

\* generate_thread_data for the two rows: their seeds, then their sequence numbers
DeriveSequenceNumbers ==
    /\ seq_a = <<>>
    /\ seed_a' = <<RowSeed(row_a.job_index, row_a.thread_id, row_a.row_idx)>>
    /\ seed_b' = <<RowSeed(row_b.job_index, row_b.thread_id, row_b.row_idx)>>
    /\ \E picked_a, picked_b \in BOOLEAN :
          /\ seq_a' = <<RowSequenceNumbers(row_a, picked_a, env_num_rows, chargeback_ppm)>>
          /\ seq_b' = <<RowSequenceNumbers(row_b, picked_b, env_num_rows, chargeback_ppm)>>
    /\ UNCHANGED <<env_num_rows, row_a, row_b, order_of>>
    /\ UNCHANGED <<storeVars, jobVars, configVars, pipeVars, retryVars, fieldVars, logicVars,
                   genVars, auxVars>>

NextSeq == DeriveSequenceNumbers

SpecSeq == InitSeq /\ [][NextSeq]_vars

(* ---------------------- claims checked under SpecSeq ------------------ *)

\* C11: a transaction selected for chargeback carries in the chargeback table
\* the sequence_number of its authorization row and of its clearing row, for
\* every num_rows the job may be run with.
C11_ChargebackSharesSequenceNumber ==
    (seq_a # <<>> /\ seq_a[1].chargeback # <<>>) =>
        /\ seq_a[1].chargeback[1] = seq_a[1].authorization
        /\ seq_a[1].chargeback[1] = seq_a[1].clearing

\* the two rows differ in (partition order, thread_id, row_index)
DistinctRowsOfDate ==
    <<order_of[row_a.job_index], row_a.thread_id, row_a.row_idx>>
        # <<order_of[row_b.job_index], row_b.thread_id, row_b.row_idx>>

\* C12: on one date, two authorization rows that differ in (partition order,
\* thread_id, row_index) have different sequence numbers, and so have two
\* clearing rows.
C12_SequenceNumbersUniqueOnDate ==
    (seq_a # <<>> /\ seq_b # <<>> /\ DistinctRowsOfDate) =>
        /\ seq_a[1].authorization # seq_b[1].authorization
        /\ seq_a[1].clearing # seq_b[1].clearing

(* -------------- the business logic of a row (common.rs) --------------- *)

\* country_currency_mappings
CountryCurrencyMappings ==
    << <<"USA", "USD">>, <<"CAN", "CAD">>, <<"GBR", "GBP">>, <<"JPN", "JPY">>,
       <<"AUS", "AUD">>, <<"CHE", "CHF">>, <<"SWE", "SEK">>, <<"NOR", "NOK">>,
       <<"DNK", "DKK">>, <<"POL", "PLN">>, <<"CZE", "CZK">>, <<"HUN", "HUF">>,
       <<"BGR", "BGN">>, <<"ROU", "RON">>, <<"KOR", "KRW">>, <<"MEX", "MXN">>,
       <<"BRA", "BRL">>, <<"ARG", "ARS">>, <<"CHL", "CLP">>, <<"COL", "COP">>,
       <<"PER", "PEN">>, <<"ARE", "AED">>, <<"ZAF", "ZAR">>, <<"SGP", "SGD">>,
       <<"DEU", "EUR">>, <<"FRA", "EUR">>, <<"ITA", "EUR">>, <<"ESP", "EUR">>,
       <<"NLD", "EUR">>, <<"BEL", "EUR">>, <<"AUT", "EUR">>, <<"IRL", "EUR">>,
       <<"PRT", "EUR">>, <<"GRC", "EUR">>, <<"FIN", "EUR">>, <<"SVN", "EUR">>,
       <<"EST", "EUR">>, <<"LVA", "EUR">>, <<"LTU", "EUR">>, <<"LUX", "EUR">>,
       <<"MLT", "EUR">>, <<"CYP", "EUR">>, <<"HRV", "EUR">> >>

\* StdRng::seed_from_u64(seed): the generator is a fixed function of its seed
\* and of the number of draws taken so far. The k-th draw is kept as a number
\* of hundredths of the generator's range; this function stands for the
\* generator's algorithm.
RawDraw(rng_seed, k) == ((((rng_seed % 101) + 1) * (k + 1)) % 101) % 100

\* seeded_rng.gen::<f32>() < p, with p in thousandths, at draw k
GenBelow(rng_seed, k, permille) == RawDraw(rng_seed, k) * 10 < permille

\* seeded_rng.gen_range(lo..hi) at draw k
GenRange(rng_seed, k, lo, hi) == lo + (RawDraw(rng_seed, k) * (hi - lo)) \div 100

\* the refund/void/adjustment flags with the void test not excluding a refund
StateFlagsOverlapping(state_rand) ==
    [has_refund |-> state_rand < 5,
     has_void |-> state_rand < 7,
     has_adjustment |-> state_rand >= 7 /\ state_rand < 10]

\* has_refund = state_rand < 5; has_void = !has_refund && state_rand < 7;
\* has_adjustment = !has_refund && !has_void && state_rand < 10
StateFlags(state_rand) ==
    LET has_refund == state_rand < 5
        has_void == ~has_refund /\ state_rand < 7
        has_adjustment == ~has_refund /\ ~has_void /\ state_rand < 10
    IN  [has_refund |-> has_refund, has_void |-> has_void, has_adjustment |-> has_adjustment]

\* match rand_val { 0..=84 => PURCHASE, ... }
TransactionType(rand_val) ==
    IF rand_val <= 84 THEN "PURCHASE"
    ELSE IF rand_val <= 87 THEN "REFUND"
    ELSE IF rand_val <= 92 THEN "CASH_ADVANCE"
    ELSE IF rand_val <= 96 THEN "BALANCE_TRANSFER"
    ELSE IF rand_val <= 98 THEN "FEE"
    ELSE "ADJUSTMENT"

\* the bounds of a rate drawn by transaction type, in millionths
RateRange(transaction_type, cash, transfer, purchase, other) ==
    IF transaction_type = "CASH_ADVANCE" THEN cash
    ELSE IF transaction_type = "BALANCE_TRANSFER" THEN transfer
    ELSE IF transaction_type = "PURCHASE" THEN purchase
    ELSE other

\* generate_transaction_business_logic on a generator seeded with rng_seed.
\* Amounts are in cents, the chargeback multiplier and the markups in
\* thousandths, rates in millionths; exchange_rate keeps the two currencies
\* whose table rates are multiplied and the variance drawn. Next to the fields
\* of TransactionBusinessLogic the record keeps state_rand, the number of draws
\* taken from the generator (draws) and what they returned (drawn).
GenerateTransactionBusinessLogic(rng_seed) ==
    LET is_auth_declined == GenBelow(rng_seed, 1, 50)
        is_reversal == GenBelow(rng_seed, 2, 5)
        n_mappings == Len(CountryCurrencyMappings)
        selected_merchant == CountryCurrencyMappings[GenRange(rng_seed, 3, 0, n_mappings) + 1]
        selected_issuer == CountryCurrencyMappings[GenRange(rng_seed, 4, 0, n_mappings) + 1]
        base_amount == GenRange(rng_seed, 5, 1000, 999999)
        chargeback_multiplier == GenRange(rng_seed, 6, 500, 1000)
        state_rand == GenRange(rng_seed, 7, 0, 100)
        flags == StateFlags(state_rand)
        \* has_tip: the draw is taken only if the transaction is neither declined nor refunded
        tip_drawn == ~is_auth_declined /\ ~flags.has_refund
        has_tip == tip_drawn /\ GenBelow(rng_seed, 8, 400)
        k_ship == 8 + (IF tip_drawn THEN 1 ELSE 0)
        has_shipping == GenBelow(rng_seed, k_ship, 600)
        has_handling == has_shipping /\ GenBelow(rng_seed, k_ship + 1, 500)
        k_warranty == k_ship + 1 + (IF has_shipping THEN 1 ELSE 0)
        has_warranty == GenBelow(rng_seed, k_warranty, 100)
        fee_drawn == ~(flags.has_adjustment \/ flags.has_void)
        has_reconciliation_fee ==
            flags.has_adjustment \/ flags.has_void \/ GenBelow(rng_seed, k_warranty + 1, 50)
        k_type == k_warranty + 1 + (IF fee_drawn THEN 1 ELSE 0)
        transaction_type == TransactionType(GenRange(rng_seed, k_type, 0, 100))
        cross_border == selected_merchant[1] # selected_issuer[1]
        issuer_range == RateRange(transaction_type, <<25000, 45000>>, <<15000, 35000>>,
                                  <<5000, 25000>>, <<8000, 20000>>)
        issuer_rate == GenRange(rng_seed, k_type + 1, issuer_range[1], issuer_range[2])
        network_base == GenRange(rng_seed, k_type + 2, 100, 1500)
        network_rate ==
            IF cross_border
            THEN (network_base * GenRange(rng_seed, k_type + 3, 1500, 2500)) \div 1000
            ELSE network_base
        k_risk == k_type + 3 + (IF cross_border THEN 1 ELSE 0)
        risk_base == IF is_auth_declined
                     THEN GenRange(rng_seed, k_risk, 8000, 15000)
                     ELSE GenRange(rng_seed, k_risk, 100, 8000)
        risk_rate == IF has_tip THEN (risk_base * 12) \div 10 ELSE risk_base
        acquirer_range == RateRange(transaction_type, <<25000, 50000>>, <<20000, 40000>>,
                                    <<15000, 35000>>, <<18000, 30000>>)
        acquirer_base == GenRange(rng_seed, k_risk + 1, acquirer_range[1], acquirer_range[2])
        small == base_amount < 10000
        acquirer_rate ==
            IF small
            THEN (acquirer_base * GenRange(rng_seed, k_risk + 2, 1100, 1300)) \div 1000
            ELSE acquirer_base
        k_exchange == k_risk + 2 + (IF small THEN 1 ELSE 0)
        same_currency == selected_merchant[2] = selected_issuer[2]
        exchange_rate ==
            IF same_currency
            THEN [to_usd |-> "", from_usd |-> "", variance |-> 1000]
            ELSE [to_usd |-> selected_issuer[2], from_usd |-> selected_merchant[2],
                  variance |-> GenRange(rng_seed, k_exchange, 980, 1020)]
        k_interchange == k_exchange + (IF same_currency THEN 0 ELSE 1)
        interchange_range == RateRange(transaction_type, <<20000, 25000>>, <<15000, 20000>>,
                                       <<5000, 20000>>, <<8000, 15000>>)
        interchange_base ==
            GenRange(rng_seed, k_interchange, interchange_range[1], interchange_range[2])
        interchange_rate ==
            IF cross_border
            THEN (interchange_base * GenRange(rng_seed, k_interchange + 1, 1200, 1500)) \div 1000
            ELSE interchange_base
        k_processing == k_interchange + 1 + (IF cross_border THEN 1 ELSE 0)
        processing_base == GenRange(rng_seed, k_processing, 1000, 5000)
        processing_rate == IF is_auth_declined THEN (processing_base * 12) \div 10
                           ELSE processing_base
    IN  [is_auth_declined |-> is_auth_declined,
         is_reversal |-> is_reversal,
         merchant_country_and_currency_map |-> selected_merchant,
         issuer_country_and_currency_map |-> selected_issuer,
         base_amount |-> base_amount,
         chargeback_multiplier |-> chargeback_multiplier,
         state_rand |-> state_rand,
         has_refund |-> flags.has_refund,
         has_void |-> flags.has_void,
         has_adjustment |-> flags.has_adjustment,
         has_tip |-> has_tip,
         has_shipping |-> has_shipping,
         has_handling |-> has_handling,
         has_warranty |-> has_warranty,
         has_reconciliation_fee |-> has_reconciliation_fee,
         transaction_type |-> transaction_type,
         issuer_rate |-> issuer_rate,
         network_rate |-> network_rate,
         risk_rate |-> risk_rate,
         acquirer_rate |-> acquirer_rate,
         exchange_rate |-> exchange_rate,
         interchange_rate |-> interchange_rate,
         processing_rate |-> processing_rate,
         draws |-> k_processing,
         drawn |-> [i \in 1..k_processing |-> RawDraw(rng_seed, i)]]

(* ---------------- the field resolver (data_generator.rs) -------------- *)

DigitChars == <<"0", "1", "2", "3", "4", "5", "6", "7", "8", "9">>

\* format!("{}", n) for n >= 0
RECURSIVE DecimalString(_)
DecimalString(n) ==
    IF n < 10 THEN <<DigitChars[n + 1]>>
    ELSE Append(DecimalString(n \div 10), DigitChars[(n % 10) + 1])

\* the last `width` decimal digits of n, with leading zeros
RECURSIVE ZeroPadded(_, _)
ZeroPadded(n, width) ==
    IF width = 0 THEN <<>>
    ELSE Append(ZeroPadded(n \div 10, width - 1), DigitChars[(n % 10) + 1])

\* format!("{:.2}", x) and format!("{:.4}", x) for x = units / 10^scale
FormatFixed(units, scale) ==
    DecimalString(units \div (10 ^ scale)) \o <<".">> \o ZeroPadded(units % (10 ^ scale), scale)

\* x rounded to the nearest unit, for x = n / divisor
Rounded(n, divisor) == (n + divisor \div 2) \div divisor

\* generate_timestamp_with_rng: the date with a drawn hour, minute and second
GenerateTimestamp(date, rng_seed, k) ==
    [date |-> date,
     second_of_day |-> GenRange(rng_seed, k, 0, 24) * 3600
                       + GenRange(rng_seed, k + 1, 0, 60) * 60
                       + GenRange(rng_seed, k + 2, 0, 60)]

MerchantCountryFields ==
    {"country_code", "transaction_country_code", "merchant_country_code",
     "acquirer_country_code", "processor_country_code"}

IssuerCountryFields ==
    {"issuer_country_code", "cardholder_country", "billing_country",
     "settlement_country_code", "clearing_country_code"}

IssuerCurrencyFields ==
    {"currency_code", "original_currency", "settlement_currency", "clearing_currency",
     "issuer_currency", "cardholder_currency", "billing_currency"}

\* the modelled field names that contain "currency" and have no arm of their own
OtherCurrencyFields == {"fee_currency"}

CurrencyOptions == <<"USD", "EUR", "GBP", "CAD", "JPY", "AUD">>

RateFields ==
    {"issuer_rate", "network_rate", "risk_rate", "acquirer_rate", "interchange_rate",
     "processing_rate"}

\* the modelled field names that fall through to the default arm
UncoveredFields == {"loyalty_tier"}

\* what the process finds around it during one call: the output of
\* rand::thread_rng() (non_seeded_rng) and the wall clock
Surroundings(unseeded) == [unseeded |-> unseeded, clock |-> now]

\* the chargeback amount arms without the test of the chargeback seeds
ChargebackArmAlways(row_seed_arg, chargeback_row_seeds, is_chargeback_table) == TRUE

\* if is_chargeback_table { .. } else if chargeback_row_seeds.contains(&row_seed) { .. }
ChargebackArm(row_seed_arg, chargeback_row_seeds, is_chargeback_table) ==
    is_chargeback_table \/ row_seed_arg \in chargeback_row_seeds

\* a country arm that takes the country by the position of the row
CountryByRowIndex(logic, row_index) ==
    CountryCurrencyMappings[(row_index % Len(CountryCurrencyMappings)) + 1][1]

\* business_logic.merchant_country_and_currency_map.keys().next().unwrap()
MerchantCountry(logic, row_index) == logic.merchant_country_and_currency_map[1]

\* generate_data_for_given_field, for the modelled field names; os is what the
\* call finds around it. The arms come in the order of the match.
GenerateDataForGivenField(name, row_seed_arg, row_index, partition_job_order, thread_id, n_threads, chargeback_row_seeds, is_chargeback_table, process_date, pool, os) ==
    LET logic == GenerateTransactionBusinessLogic(row_seed_arg)
        k == logic.draws + 1
        charged == ChargebackArm(row_seed_arg, chargeback_row_seeds, is_chargeback_table)
        chargeback_cents == Rounded(logic.base_amount * logic.chargeback_multiplier, 1000)
    IN  IF name \in MerchantCountryFields THEN MerchantCountry(logic, row_index)
        ELSE IF name \in IssuerCountryFields THEN logic.issuer_country_and_currency_map[1]
        ELSE IF name \in IssuerCurrencyFields THEN logic.issuer_country_and_currency_map[2]
        ELSE IF name = "local_currency" THEN logic.merchant_country_and_currency_map[2]
        ELSE IF name \in OtherCurrencyFields
             THEN CurrencyOptions[GenRange(row_seed_arg, k, 0, Len(CurrencyOptions)) + 1]
        ELSE IF name = "sequence_number"
             THEN SequenceNumberField(row_seed_arg, row_index, partition_job_order, thread_id,
                                      n_threads, is_chargeback_table, env_num_rows)
        ELSE IF name \in {"transaction_amount", "settlement_amount"}
             THEN FormatFixed(logic.base_amount, 2)
        ELSE IF name = "transaction_amount_cents" THEN DecimalString(logic.base_amount)
        ELSE IF name = "chargeback_count"
             THEN IF charged THEN <<"1">> ELSE <<"0">>
        ELSE IF name = "chargeback_amount"
             THEN IF charged THEN FormatFixed(chargeback_cents, 2) ELSE <<"0", ".", "0", "0">>
        ELSE IF name = "chargeback_amount_cents"
             THEN IF charged THEN DecimalString(chargeback_cents) ELSE <<"0">>
        ELSE IF name \in RateFields THEN FormatFixed(Rounded(logic[name], 100), 4)
        ELSE IF name = "transaction_type" THEN logic.transaction_type
        ELSE IF name = "hash_pan" THEN pool[GenRange(row_seed_arg, k, 0, Len(pool)) + 1]
        ELSE IF name = "transaction_timestamp"
             THEN GenerateTimestamp(process_date, row_seed_arg, k)
        ELSE IF name = "process_date" THEN GenerateTimestamp(process_date, row_seed_arg, k)
        ELSE IF name = "insert_date" THEN DecimalString(os.clock)
        ELSE IF name = "transaction_id" THEN <<"TXN", RawDraw(row_seed_arg, k)>>
        ELSE IF name = "clearing_id" THEN <<"CLR", os.unseeded>>
        ELSE IF name = "settlement_id" THEN <<"STL", os.unseeded>>
        ELSE IF name = "sca_result"
             THEN <<"AUTHENTICATED", "NOT_AUTHENTICATED", "ATTEMPTED", "UNAVAILABLE">>
                      [(os.unseeded % 4) + 1]
        ELSE <<name, os.unseeded>>

(* ------------- two calls of the resolver (SpecField) ------------------ *)

\* the field names the calls are made for: every arm of the resolver that the
\* claims name, and one field of each other kind of arm
FieldSamples ==
    MerchantCountryFields \cup IssuerCountryFields \cup IssuerCurrencyFields
        \cup {"local_currency"} \cup OtherCurrencyFields
        \cup {"sequence_number", "transaction_amount", "settlement_amount",
              "transaction_amount_cents", "chargeback_count", "chargeback_amount",
              "chargeback_amount_cents"}
        \cup RateFields
        \cup {"transaction_type", "hash_pan", "transaction_timestamp", "process_date",
              "insert_date", "transaction_id", "clearing_id", "settlement_id", "sca_result"}
        \cup UncoveredFields

\* the row seeds of the first two rows of thread 1 of job 0
FieldSeeds == {RowSeed(0, 1, i) : i \in 0..1}

\* the arguments of a call that the field name and the row seed leave open
CallArgs ==
    [row_index : 0..1,
     chargeback_row_seeds : {{}, {RowSeed(0, 1, 0)}},
     is_chargeback_table : BOOLEAN]

\* process_date of the run
ProcessDate == "2024-01-01"

InitField ==
    /\ InitRecord(0)
    /\ InitJobs(0)
    /\ num_rows = MaxRows
    /\ chargeback_ppm = DefaultChargebackPpm
    /\ IdlePipeline
    /\ IdleRetry
    /\ IdleSeed
    /\ IdleSeq
    /\ now = 0
    /\ process_run = 1
    /\ hash_pan_pool = <<"pan_1", "pan_2">>
    /\ field_name \in FieldSamples
    /\ field_seed \in FieldSeeds
    /\ call \in [Calls -> CallArgs]
    /\ out = [c \in Calls |-> <<>>]
    /\ IdleLogic
    /\ IdleGen
    /\ IdleAux

\* one call of generate_data_for_given_field, by thread 1 of job 0
Resolve(c) ==
    /\ out[c] = <<>>
    /\ \E unseeded \in 0..MaxUnseeded :
          out' = [out EXCEPT ![c] =
                    <<GenerateDataForGivenField(
                          field_name, field_seed, call[c].row_index, order_of[0], 1,
                          num_threads, call[c].chargeback_row_seeds,
                          call[c].is_chargeback_table, ProcessDate, hash_pan_pool,
                          Surroundings(unseeded))>>]
    /\ now' = now + 1
    /\ UNCHANGED <<process_run, hash_pan_pool, field_name, field_seed, call>>
    /\ UNCHANGED <<storeVars, jobVars, configVars, pipeVars, retryVars, seedVars, seqVars,
                   logicVars, genVars, auxVars>>

\* the process ends and is started again: get_100_random_hash_pans fetches anew
RestartProcess ==
    /\ process_run < MaxProcessRuns
    /\ process_run' = process_run + 1
    /\ hash_pan_pool' \in HashPanPools
    /\ UNCHANGED <<now, field_name, field_seed, call, out>>
    /\ UNCHANGED <<storeVars, jobVars, configVars, pipeVars, retryVars, seedVars, seqVars,
                   logicVars, genVars, auxVars>>

NextField ==
    \/ \E c \in Calls : Resolve(c)
    \/ RestartProcess

SpecField == InitField /\ [][NextField]_vars

(* --------------------- claims checked under SpecField ----------------- *)

BothResolved == \A c \in Calls : out[c] # <<>>

\* the country-code, currency-code, transaction/settlement amount and rate fields
SharedFields ==
    MerchantCountryFields \cup IssuerCountryFields \cup IssuerCurrencyFields
        \cup {"local_currency"} \cup OtherCurrencyFields
        \cup {"transaction_amount", "settlement_amount"} \cup RateFields

\* C13: for the shared country-code, currency-code, transaction/settlement
\* amount and rate fields the value depends only on (field name, row seed): two
\* calls for the same field and row seed return the same string whatever their
\* row index, chargeback seeds and is-chargeback-table flag.
C13_SharedFieldsDependOnSeedOnly ==
    (field_name \in SharedFields /\ BothResolved) => out["a"] = out["b"]

\* a merchant country code resolved for an authorization row with the seed
\* among the chargeback seeds and for a chargeback-table row at another index
C13_Witness ==
    /\ field_name = "merchant_country_code"
    /\ BothResolved
    /\ call["a"].row_index # call["b"].row_index
    /\ call["a"].chargeback_row_seeds = {field_seed}
    /\ ~call["a"].is_chargeback_table
    /\ call["b"].chargeback_row_seeds = {}
    /\ call["b"].is_chargeback_table

ChargebackAmountFields == {"chargeback_count", "chargeback_amount", "chargeback_amount_cents"}

\* the string is a zero: "0" or "0.00"
IsZero(value) == \A i \in 1..Len(value) : value[i] \in {"0", "."}

\* the zero the resolver writes for the field
ZeroOf(name) == IF name = "chargeback_amount" THEN <<"0", ".", "0", "0">> ELSE <<"0">>

\* C14: chargeback_count, chargeback_amount and chargeback_amount_cents are
\* non-zero exactly when the row is resolved as a chargeback-table row or its
\* row seed is in chargebackSeeds, and are "0" / "0.00" in every other case.
C14_ChargebackFieldsNonZeroIffCharged ==
    field_name \in ChargebackAmountFields =>
        \A c \in Calls :
            out[c] # <<>> =>
                LET charged == call[c].is_chargeback_table
                                \/ field_seed \in call[c].chargeback_row_seeds
                IN  /\ charged <=> ~IsZero(out[c][1])
                    /\ ~charged => out[c][1] = ZeroOf(field_name)

\* chargeback_amount of the same seed: "0.00" for a row that was not picked,
\* an amount for the row once its seed is among the chargeback seeds
C14_Witness ==
    /\ field_name = "chargeback_amount"
    /\ BothResolved
    /\ ~call["a"].is_chargeback_table /\ field_seed \notin call["a"].chargeback_row_seeds
    /\ out["a"][1] = <<"0", ".", "0", "0">>
    /\ ~call["b"].is_chargeback_table /\ field_seed \in call["b"].chargeback_row_seeds
    /\ ~IsZero(out["b"][1])

\* the wall-clock insertion-time fields
InsertionTimeFields == {"insert_date"}

\* C15: for a fixed row and field name the resolver returns the same value on
\* every repeated call and after a process restart, for every field name other
\* than the wall-clock insertion-time fields.
C15_ResolverDeterministic ==
    (field_name \notin InsertionTimeFields /\ call["a"] = call["b"] /\ BothResolved)
        => out["a"] = out["b"]

(* --------- two syntheses of the business logic (SpecLogic) ------------ *)

\* the seeds the generators are initialised from
LogicSeeds == 0..MaxLogicSeed \cup {12345}

InitLogic ==
    /\ InitRecord(0)
    /\ InitJobs(0)
    /\ num_rows = MaxRows
    /\ chargeback_ppm = DefaultChargebackPpm
    /\ IdlePipeline
    /\ IdleRetry
    /\ IdleSeed
    /\ IdleSeq
    /\ IdleField
    /\ logic_seed \in LogicSeeds
    /\ business_logic = [c \in Calls |-> <<>>]
    /\ IdleGen
    /\ IdleAux

\* StdRng::seed_from_u64(logic_seed), then generate_transaction_business_logic
Synthesize(c) ==
    /\ business_logic[c] = <<>>
    /\ business_logic' =
          [business_logic EXCEPT ![c] = <<GenerateTransactionBusinessLogic(logic_seed)>>]
    /\ now' = now + 1
    /\ UNCHANGED <<logic_seed, process_run, hash_pan_pool, field_name, field_seed, call, out>>
    /\ UNCHANGED <<storeVars, jobVars, configVars, pipeVars, retryVars, seedVars, seqVars,
                   genVars, auxVars>>

NextLogic == \E c \in Calls : Synthesize(c)

SpecLogic == InitLogic /\ [][NextLogic]_vars

(* --------------------- claims checked under SpecLogic ----------------- *)

\* C17: at most one of has_refund, has_void, has_adjustment is true; with d the
\* state draw in [0,100): refund iff d < 5, void iff 5 <= d < 7, adjustment iff
\* 7 <= d < 10, none otherwise.
C17_StateFlagsExclusive ==
    \A c \in Calls :
        business_logic[c] # <<>> =>
            LET l == business_logic[c][1]
                d == l.state_rand
            IN  /\ d \in 0..99
                /\ ~(l.has_refund /\ l.has_void)
                /\ ~(l.has_refund /\ l.has_adjustment)
                /\ ~(l.has_void /\ l.has_adjustment)
                /\ l.has_refund <=> d < 5
                /\ l.has_void <=> (5 <= d /\ d < 7)
                /\ l.has_adjustment <=> (7 <= d /\ d < 10)

\* a refund: the draw is below every one of the three thresholds
C17_Witness ==
    /\ business_logic["a"] # <<>>
    /\ business_logic["a"][1].state_rand < 5
    /\ business_logic["a"][1].has_refund

(* ------------- one thread's tables (SpecGen, main.rs) ----------------- *)

Tables == {TableNames[i] : i \in 1..Len(TableNames)}

Range(seq) == {seq[i] : i \in 1..Len(seq)}

\* a sampling that may take the same element more than once
ChooseWithRepeats(seq, amount) ==
    LET n == IF amount < Len(seq) THEN amount ELSE Len(seq)
    IN  {[i \in 1..n |-> seq[f[i]]] : f \in [1..n -> 1..Len(seq)]}

\* row_seeds.choose_multiple(&mut rng, amount): min(amount, len) elements at
\* different positions of the slice, in an order the generator decides
ChooseMultiple(seq, amount) ==
    LET n == IF amount < Len(seq) THEN amount ELSE Len(seq)
    IN  {[i \in 1..n |-> seq[f[i]]] :
            f \in {g \in [1..n -> 1..Len(seq)] : \A i, j \in 1..n : i # j => g[i] # g[j]}}

\* the rows of generate_batch_with_seeds / generate_hash_batch_with_seeds: row
\* row_index is resolved with row_seeds[row_index % row_seeds.len()]
GenerateBatchWithSeeds(n, row_seeds, chargeback_row_seeds) ==
    [i \in 1..n |->
        [row_index |-> i - 1,
         row_seed |-> row_seeds[((i - 1) % Len(row_seeds)) + 1],
         is_chargeback_table |-> IsChargebackTable(Range(chargeback_row_seeds))]]

\* chargeback tables whatever the chargeback seeds
ChargebackTablesAlways(chargeback_row_seeds) == TRUE

\* if !chargeback_row_seeds.is_empty()
ChargebackTablesWanted(chargeback_row_seeds) == chargeback_row_seeds # <<>>

\* the ratios the chargeback percentage is taken from, in millionths
GenPpmSamples == {0, DefaultChargebackPpm, 250000, 500000, 1000000}

InitGen ==
    /\ InitRecord(0)
    /\ InitJobs(0)
    /\ num_rows \in 0..MaxRows
    /\ chargeback_ppm \in GenPpmSamples
    /\ IdlePipeline
    /\ IdleRetry
    /\ IdleSeed
    /\ IdleSeq
    /\ IdleField
    /\ IdleLogic
    /\ IdleAux
    /\ gen_stage = "start"
    /\ gen_thread \in [job_index : {0}, thread_id : Threads]
    /\ thread_row_seeds = <<>>
    /\ thread_chargeback_seeds = <<>>
    /\ thread_result = [name \in Tables |-> <<>>]
    /\ upload_tasks = <<>>

UnchangedByGen ==
    UNCHANGED <<storeVars, jobVars, configVars, pipeVars, retryVars, seedVars, seqVars,
                fieldVars, logicVars, gen_thread, auxVars>>

\* let row_seeds = (0..num_rows).map(|row_idx| thread_seed * 100000 + row_idx)
GenerateRowSeeds ==
    /\ gen_stage = "start"
    /\ gen_stage' = "seeds"
    /\ thread_row_seeds' =
          [i \in 1..num_rows |-> RowSeed(gen_thread.job_index, gen_thread.thread_id, i - 1)]
    /\ UNCHANGED <<thread_chargeback_seeds, thread_result, upload_tasks>>
    /\ UnchangedByGen

\* let chargeback_row_seeds = if total_chargebacks_needed > 0 { choose_multiple } else { Vec::new() }
ChooseChargebackSeeds ==
    /\ gen_stage = "seeds"
    /\ gen_stage' = "chosen"
    /\ LET total_chargebacks_needed == TotalChargebacksNeeded(num_rows, chargeback_ppm)
       IN  IF total_chargebacks_needed > 0
           THEN thread_chargeback_seeds'
                    \in ChooseMultiple(thread_row_seeds, total_chargebacks_needed)
           ELSE thread_chargeback_seeds' = <<>>
    /\ UNCHANGED <<thread_row_seeds, thread_result, upload_tasks>>
    /\ UnchangedByGen

\* the rayon::join of the table generators, then Ok(ThreadResult { .. })
GenerateTables ==
    /\ gen_stage = "chosen"
    /\ gen_stage' = "generated"
    /\ LET main == <<GenerateBatchWithSeeds(num_rows, thread_row_seeds,
                                            thread_chargeback_seeds)>>
           chargeback ==
               IF ChargebackTablesWanted(thread_chargeback_seeds)
               THEN <<GenerateBatchWithSeeds(Len(thread_chargeback_seeds),
                                             thread_chargeback_seeds, <<>>)>>
               ELSE <<>>
       IN  thread_result' =
               [name \in Tables |->
                   IF name \in {"chargeback", "chargeback_hash"} THEN chargeback ELSE main]
    /\ UNCHANGED <<thread_row_seeds, thread_chargeback_seeds, upload_tasks>>
    /\ UnchangedByGen

\* upload_thread_results: an upload task for each of the four tables, and for
\* the two chargeback tables if let (Some(..), Some(..)) matches
SpawnUploads ==
    /\ gen_stage = "generated"
    /\ gen_stage' = "spawned"
    /\ upload_tasks' =
          SubSeq(TableNames, 1, 4)
              \o (IF thread_result["chargeback"] # <<>> /\ thread_result["chargeback_hash"] # <<>>
                  THEN SubSeq(TableNames, 5, 6)
                  ELSE <<>>)
    /\ UNCHANGED <<thread_row_seeds, thread_chargeback_seeds, thread_result>>
    /\ UnchangedByGen

NextGen ==
    \/ GenerateRowSeeds
    \/ ChooseChargebackSeeds
    \/ GenerateTables
    \/ SpawnUploads

SpecGen == InitGen /\ [][NextGen]_vars

(* ------------- claims about one thread's tables (SpecGen) ------------- *)

Ceiling(a, b) == (a + b - 1) \div b

SeedsChosen == gen_stage \notin {"start", "seeds"}

TablesGenerated == gen_stage \in {"generated", "spawned"}

\* C18: the number of chargeback seeds of a thread is the ceiling of
\* (number of row seeds x chargeback percentage) for a percentage in (0, 1],
\* and zero for a percentage of zero.
C18_ChargebackSeedCountIsCeiling ==
    SeedsChosen =>
        Len(thread_chargeback_seeds) =
            IF chargeback_ppm = 0
            THEN 0
            ELSE Ceiling(Len(thread_row_seeds) * chargeback_ppm, 1000000)

Present(name) == thread_result[name] # <<>>

\* C19: the chargeback table and the chargeback-hash table of a thread are
\* generated and uploaded exactly when the thread's chargeback seeds are not
\* empty: a thread without chargeback seeds yields four tables, a thread with
\* chargeback seeds yields six, and the two chargeback tables come together.
C19_ChargebackTablesIffSeeds ==
    /\ TablesGenerated =>
          /\ \A name \in Tables \ {"chargeback", "chargeback_hash"} : Present(name)
          /\ Present("chargeback") <=> thread_chargeback_seeds # <<>>
          /\ Present("chargeback_hash") <=> Present("chargeback")
    /\ gen_stage = "spawned" =>
          /\ \A i, j \in 1..Len(upload_tasks) : i # j => upload_tasks[i] # upload_tasks[j]
          /\ Range(upload_tasks) = {name \in Tables : Present(name)}
          /\ Len(upload_tasks) = IF thread_chargeback_seeds = <<>> THEN 4 ELSE 6

C19_Witness ==
    /\ gen_stage = "spawned"
    /\ thread_chargeback_seeds # <<>>
    /\ Len(upload_tasks) = 6
    /\ Len(thread_chargeback_seeds) < num_rows

RowsWithSeed(name, seed) ==
    {i \in 1..Len(thread_result[name][1]) : thread_result[name][1][i].row_seed = seed}

\* C20: the chargeback seeds are drawn without replacement from the row seeds
\* of the same thread; the chargeback table has one row for each chargeback
\* seed, and the seed of each of its rows is the seed of exactly one
\* authorization row and of exactly one clearing row of the thread.
C20_ChargebackRowsMatchOneRowEach ==
    /\ SeedsChosen =>
          /\ Range(thread_chargeback_seeds) \subseteq Range(thread_row_seeds)
          /\ \A i, j \in 1..Len(thread_chargeback_seeds) :
                i # j => thread_chargeback_seeds[i] # thread_chargeback_seeds[j]
    /\ (TablesGenerated /\ Present("chargeback")) =>
          /\ Len(thread_result["chargeback"][1]) = Len(thread_chargeback_seeds)
          /\ \A seed \in Range(thread_chargeback_seeds) :
                Cardinality(RowsWithSeed("chargeback", seed)) = 1
          /\ \A i \in 1..Len(thread_result["chargeback"][1]) :
                LET seed == thread_result["chargeback"][1][i].row_seed
                IN  /\ Cardinality(RowsWithSeed("authorization", seed)) = 1
                    /\ Cardinality(RowsWithSeed("clearing", seed)) = 1

C20_Witness ==
    /\ TablesGenerated
    /\ Len(thread_chargeback_seeds) >= 2
    /\ Len(thread_chargeback_seeds) < num_rows
    /\ Len(thread_result["chargeback"][1]) = Len(thread_chargeback_seeds)

(* ------------- the typed columns of a batch (SpecColumn) -------------- *)

ColumnTypes == {"int", "bigint", "smallint", "tinyint", "timestamp", "decimal"}

\* the scale of decimals_<precision>_<scale> when the key gives none: unwrap_or(2)
DecimalScale == 2

IsDigit(ch) == \E i \in 1..Len(DigitChars) : DigitChars[i] = ch

DigitValue(ch) == (CHOOSE i \in 1..Len(DigitChars) : DigitChars[i] = ch) - 1

\* a number as its sign and the decimal digits of its magnitude, zero being
\* no digits: the values of i64 and i128 columns are beyond the checker's integers
RECURSIVE StripZeros(_)
StripZeros(digits) ==
    IF digits # <<>> /\ digits[1] = 0 THEN StripZeros(Tail(digits)) ELSE digits

NumberOf(neg, digits) ==
    LET magnitude == StripZeros(digits)
    IN  [neg |-> neg /\ magnitude # <<>>, digits |-> magnitude]

MagnitudeLeq(a, b) ==
    \/ Len(a) < Len(b)
    \/ /\ Len(a) = Len(b)
       /\ \/ a = b
          \/ \E i \in 1..Len(a) : a[i] < b[i] /\ \A j \in 1..(i - 1) : a[j] = b[j]

\* i8::MAX, i16::MAX, i32::MAX, i64::MAX
IntMax(type) ==
    CASE type = "tinyint" -> <<1, 2, 7>>
      [] type = "smallint" -> <<3, 2, 7, 6, 7>>
      [] type = "int" -> <<2, 1, 4, 7, 4, 8, 3, 6, 4, 7>>
      [] OTHER -> <<9, 2, 2, 3, 3, 7, 2, 0, 3, 6, 8, 5, 4, 7, 7, 5, 8, 0, 7>>

\* the literal without its sign, and whether the sign is a minus
Unsigned(s) == IF s # <<>> /\ s[1] \in {"+", "-"} THEN Tail(s) ELSE s

IsNegative(s) == s # <<>> /\ s[1] = "-"

\* field_value.parse::<i8 | i16 | i32 | i64>(): <<>> for Err, else <<number>>.
\* An optional sign, then one digit or more, and a value the type can hold.
ParseInt(s, type) ==
    LET body == Unsigned(s)
        magnitude == StripZeros([i \in 1..Len(body) |-> DigitValue(body[i])])
    IN  IF body = <<>> \/ \E i \in 1..Len(body) : ~IsDigit(body[i])
        THEN <<>>
        ELSE IF \/ MagnitudeLeq(magnitude, IntMax(type))
                \/ IsNegative(s) /\ magnitude = AddDecimal(IntMax(type), 1)
             THEN <<NumberOf(IsNegative(s), magnitude)>>
             ELSE <<>>

\* field_value.parse::<f64>() as i128 * 10^scale: <<>> for Err, else <<number>>.
\* Literals of the form sign, digits, point, digits (one digit at least); the
\* cast drops the fraction. Exponents, inf and nan are left out.
ParseDecimal(s, scale) ==
    LET body == Unsigned(s)
        points == {i \in 1..Len(body) : body[i] = "."}
        whole == IF points = {} THEN body
                 ELSE SubSeq(body, 1, (CHOOSE i \in points : TRUE) - 1)
        magnitude == StripZeros([i \in 1..Len(whole) |-> DigitValue(whole[i])])
    IN  IF \/ Cardinality(points) > 1
           \/ Len(body) = Cardinality(points)
           \/ \E i \in 1..Len(body) : ~IsDigit(body[i]) /\ body[i] # "."
        THEN <<>>
        ELSE <<NumberOf(IsNegative(s),
                        IF magnitude = <<>> THEN <<>>
                        ELSE magnitude \o [i \in 1..scale |-> 0])>>

\* what parse makes of the literal for a column of the type
ParseLiteral(type, s) ==
    IF type = "decimal" THEN ParseDecimal(s, DecimalScale)
    ELSE ParseInt(s, IF type = "timestamp" THEN "bigint" ELSE type)

\* unwrap_or_else(|_| ..): the first draw of StdRng::seed_from_u64(row_seed) in
\* the range of the type, and for a timestamp chrono::Utc::now()
ColumnDefault(type, row_seed, clock) ==
    LET d == RawDraw(row_seed, 0)
    IN  CASE type = "int" -> NumberOf(FALSE, Digits(GenRange(row_seed, 0, 1, 1000000)))
          [] type = "bigint" ->
                 NumberOf(FALSE, Digits(1 + d * 9999999 + (d * 99) \div 100))
          [] type = "smallint" -> NumberOf(FALSE, Digits(GenRange(row_seed, 0, 1, 30000)))
          [] type = "tinyint" -> NumberOf(FALSE, Digits(GenRange(row_seed, 0, 1, 100)))
          [] type = "timestamp" -> NumberOf(FALSE, Digits(clock))
          [] type = "decimal" ->
                 NumberOf(FALSE, Digits(GenRange(row_seed, 0, 1, 1000000))
                                     \o [i \in 1..DecimalScale |-> 0])

\* the value of one row in one typed column
ColumnValue(type, s, row_seed, clock) ==
    IF ParseLiteral(type, s) # <<>>
    THEN ParseLiteral(type, s)[1]
    ELSE ColumnDefault(type, row_seed, clock)

\* strings the resolver may hand to a typed column
LiteralSamples ==
    {<<"7">>, <<"-", "3">>, <<"+", "0", "5">>, <<"2", "0", "0">>,
     <<"4", "0", "0", "0", "0">>, <<"3", "0", "0", "0", "0", "0", "0", "0", "0", "0">>,
     <<"1", "2", ".", "5", "0">>, <<>>, <<"-">>, <<"U", "S", "D">>, <<"1", ".", "2", ".", "3">>,
     <<"-", "1", "2", "8">>}

ColumnSeeds == {RowSeed(0, 1, i) : i \in 0..1}

InitColumn ==
    /\ InitRecord(0)
    /\ InitJobs(0)
    /\ num_rows = MaxRows
    /\ chargeback_ppm = DefaultChargebackPpm
    /\ IdlePipeline
    /\ IdleRetry
    /\ IdleSeed
    /\ IdleSeq
    /\ IdleField
    /\ IdleLogic
    /\ IdleGen
    /\ column_type \in ColumnTypes
    /\ literal \in LiteralSamples
    /\ column_seed \in ColumnSeeds
    /\ column_clock = 1
    /\ column = [c \in Calls |-> <<>>]
    /\ IdlePool
    /\ IdleDate
    /\ IdleSubmit

\* one run's conversion of the row's value in the column; the clock moves on
ConvertColumn(c) ==
    /\ column[c] = <<>>
    /\ column' = [column EXCEPT
                    ![c] = <<ColumnValue(column_type, literal, column_seed, column_clock)>>]
    /\ column_clock' = column_clock + 1
    /\ UNCHANGED <<column_type, literal, column_seed>>
    /\ UNCHANGED <<storeVars, jobVars, configVars, pipeVars, retryVars, seedVars, seqVars,
                   fieldVars, logicVars, genVars, poolVars, dateVars, submitVars>>

NextColumn == \E c \in Calls : ConvertColumn(c)

SpecColumn == InitColumn /\ [][NextColumn]_vars

BothConverted == \A c \in Calls : column[c] # <<>>

\* C22: a literal that does not parse for a typed column (int, bigint, smallint,
\* tinyint, timestamp, decimal) still yields a value for the row, and that
\* value depends on the row seed alone: a second run stores the same value.
C22_UnparsableLiteralDefaultIsSeeded ==
    (BothConverted /\ ParseLiteral(column_type, literal) = <<>>) =>
        column["a"] = column["b"]

(* ------------- the hash_pan pool of a thread (SpecPool) --------------- *)

\* what a get_item request for a hash_pan comes to: the record with its
\* hash_pan, no such record (or no usable attribute), or an Err from the client
PoolAnswers == {"found", "missing", "error"}

\* a loop that leaves out the lookups that did not find a record
PoolPushFoundOnly(answer, random_index, unseeded) ==
    IF answer = "found"
    THEN <<[kind |-> "stored", value |-> random_index]>>
    ELSE <<>>

\* what one round of the loop pushes: the record's hash_pan, or
\* format!("hash_{:016x}", rand::thread_rng().gen::<u64>())
PoolPush(answer, random_index, unseeded) ==
    IF answer = "found"
    THEN <<[kind |-> "stored", value |-> random_index]>>
    ELSE <<[kind |-> "placeholder", value |-> unseeded]>>

InitPool ==
    /\ InitRecord(0)
    /\ InitJobs(0)
    /\ num_rows = MaxRows
    /\ chargeback_ppm = DefaultChargebackPpm
    /\ IdlePipeline
    /\ IdleRetry
    /\ IdleSeed
    /\ IdleSeq
    /\ IdleField
    /\ IdleLogic
    /\ IdleGen
    /\ IdleColumn
    /\ IdlePool
    /\ IdleDate
    /\ IdleSubmit

UnchangedByPool ==
    UNCHANGED <<storeVars, jobVars, configVars, pipeVars, retryVars, seedVars, seqVars,
                fieldVars, logicVars, genVars, columnVars, dateVars, submitVars>>

\* one round of for _ in 0..1000: a get_item for a random index, then the push
LookupHashPan ==
    /\ pool_result = "running"
    /\ Len(pool_answers) < MaxPoolLookups
    /\ \E answer \in PoolAnswers, random_index \in 0..MaxUnseeded, unseeded \in 0..MaxUnseeded :
          /\ pool_answers' = Append(pool_answers, answer)
          /\ hash_pans' = hash_pans \o PoolPush(answer, random_index, unseeded)
    /\ UNCHANGED pool_result
    /\ UnchangedByPool

\* Ok(hash_pans) after the loop, and generate_thread_data goes on past its `?`
ReturnPool ==
    /\ pool_result = "running"
    /\ Len(pool_answers) = MaxPoolLookups
    /\ pool_result' = "ok"
    /\ UNCHANGED <<pool_answers, hash_pans>>
    /\ UnchangedByPool

NextPool ==
    \/ LookupHashPan
    \/ ReturnPool

SpecPool == InitPool /\ [][NextPool]_vars

\* C23: get_100_random_hash_pans never fails on a lookup: whichever lookups
\* miss or get a connection error, each of them puts exactly one synthetic
\* placeholder in the pool and the call returns Ok with a pool of full size.
C23_PoolLookupFailuresNotFatal ==
    /\ pool_result \in {"running", "ok"}
    /\ Len(hash_pans) = Len(pool_answers)
    /\ \A i \in 1..Len(hash_pans) :
          (hash_pans[i].kind = "placeholder") <=> (pool_answers[i] # "found")
    /\ pool_result = "ok" => Len(hash_pans) = MaxPoolLookups

\* a pool returned after a lookup that missed and one that got an error
C23_Witness ==
    /\ pool_result = "ok"
    /\ \E i, j \in 1..Len(pool_answers) :
          pool_answers[i] = "missing" /\ pool_answers[j] = "error"
    /\ Len(hash_pans) = MaxPoolLookups

(* ------- the chargeback fields of the rows of a thread (SpecGen) ------- *)

AuthorizationAndClearingTables ==
    {"authorization", "authorization_hash", "clearing", "clearing_hash"}

\* the field of a row of a generated batch, as the batch generator resolves it
RowField(name, row) ==
    GenerateDataForGivenField(name, row.row_seed, row.row_index, 0, gen_thread.thread_id,
                              num_threads, Range(thread_chargeback_seeds),
                              row.is_chargeback_table, ProcessDate, hash_pan_pool,
                              Surroundings(0))

\* C27: authorization and clearing batches, and their hash variants, are never
\* resolved as chargeback-table rows: a row of theirs has chargeback_count 1 and
\* a chargeback amount other than zero only if its seed is among the thread's
\* chargeback seeds, so with no chargeback seeds all their rows have count 0
\* and amount 0.
C27_MainTablesNotChargebackRows ==
    TablesGenerated =>
        \A name \in AuthorizationAndClearingTables :
            \A i \in 1..Len(thread_result[name][1]) :
                LET row == thread_result[name][1][i]
                IN  /\ ~row.is_chargeback_table
                    /\ \A field \in ChargebackAmountFields :
                          ~IsZero(RowField(field, row)) =>
                              row.row_seed \in Range(thread_chargeback_seeds)

(* ------------- the partition date of a job (SpecDate) ----------------- *)

\* chrono::Utc::now().naive_utc().date() when the job first starts, in days
\* since 2020-01-01 (start_date): 2025-06-23
FirstDay == 2000

\* days the initial load stops short of today, and the days of a nightly load
LoadWindowDays == 7

IsLeapYear(y) == y % 4 = 0 /\ (y % 100 # 0 \/ y % 400 = 0)

DaysInYear(y) == IF IsLeapYear(y) THEN 366 ELSE 365

DaysInMonth(y, m) ==
    IF m = 2 THEN (IF IsLeapYear(y) THEN 29 ELSE 28)
    ELSE IF m \in {4, 6, 9, 11} THEN 30 ELSE 31

RECURSIVE YearOf(_, _)
YearOf(y, n) ==
    IF n < DaysInYear(y) THEN [year |-> y, day_of_year |-> n]
    ELSE YearOf(y + 1, n - DaysInYear(y))

RECURSIVE MonthOf(_, _, _)
MonthOf(y, m, n) ==
    IF n < DaysInMonth(y, m) THEN [month |-> m, day |-> n + 1]
    ELSE MonthOf(y, m + 1, n - DaysInMonth(y, m))

\* (target_date.year(), format!("{:02}", month), format!("{:02}", day)) for the
\* date `days` days after 2020-01-01
PartitionDateOf(days) ==
    LET y == YearOf(2020, days)
        m == MonthOf(y.year, 1, y.day_of_year)
    IN  <<y.year, ZeroPadded(m.month, 2), ZeroPadded(m.day, 2)>>

\* DefaultHasher::new() fed job_index: the hasher has fixed keys, so the value
\* is a fixed function of job_index; this function stands for its algorithm
HashOfJobIndex(job_index) == (job_index * 7919 + 104729) * 31

\* calculate_partition_date: calculate_initial_partition_date(job_index) when
\* INITIAL_LOAD is "true", else calculate_nightly_partition_date()
CalculatePartitionDate(job, initial, current_day) ==
    IF initial
    THEN LET end_date == current_day - LoadWindowDays
             total_days == end_date + 1
             day_offset == HashOfJobIndex(job.array_index + job.job_index_offset) % total_days
         IN  PartitionDateOf(day_offset)
    ELSE LET initial_end_date == current_day - LoadWindowDays
             days_since_initial_end == current_day - initial_end_date
             day_offset == job.array_index % days_since_initial_end
         IN  PartitionDateOf(initial_end_date + day_offset + 1)

\* AWS_BATCH_JOB_ARRAY_INDEX and JOB_INDEX_OFFSET of the job
DateJobs == [array_index : 0..MaxJobIndex, job_index_offset : {0, MAX_ARRAY_SIZE}]

InitDate ==
    /\ InitRecord(0)
    /\ InitJobs(0)
    /\ num_rows = MaxRows
    /\ chargeback_ppm = DefaultChargebackPpm
    /\ IdlePipeline
    /\ IdleRetry
    /\ IdleSeed
    /\ IdleSeq
    /\ IdleField
    /\ IdleLogic
    /\ IdleGen
    /\ IdleColumn
    /\ IdlePool
    /\ today = FirstDay
    /\ initial_load \in BOOLEAN
    /\ date_job_index \in DateJobs
    /\ partition_dates = <<>>
    /\ IdleSubmit

UnchangedByDate ==
    UNCHANGED <<storeVars, jobVars, configVars, pipeVars, retryVars, seedVars, seqVars,
                fieldVars, logicVars, genVars, columnVars, poolVars, submitVars>>

\* a run of the job: let (year, month, day) = calculate_partition_date(job_index)
ComputePartitionDate ==
    /\ Len(partition_dates) < MaxProcessRuns
    /\ partition_dates' =
          Append(partition_dates, CalculatePartitionDate(date_job_index, initial_load, today))
    /\ UNCHANGED <<today, initial_load, date_job_index>>
    /\ UnchangedByDate

\* midnight UTC
DayPasses ==
    /\ today < FirstDay + MaxDaysPassed
    /\ today' = today + 1
    /\ UNCHANGED <<initial_load, date_job_index, partition_dates>>
    /\ UnchangedByDate

NextDate ==
    \/ ComputePartitionDate
    \/ DayPasses

SpecDate == InitDate /\ [][NextDate]_vars

\* C29: a job restarted with the same job index computes the partition date
\* of its earlier run, whenever the restart happens, so that it addresses the
\* same per-date record and the same object keys.
C29_RestartKeepsPartitionDate ==
    \A i, k \in 1..Len(partition_dates) : partition_dates[i] = partition_dates[k]

(* ------------- the job submitter's array jobs (SpecSubmit) ------------ *)

\* get_base_jobs: 1_107_000 / threads_per_job
GetBaseJobs == 1107000 \div num_threads

\* calculate_job_parameters: (base_jobs as f64 * target_tb as f64 / BASE_TB as
\* f64) as i32, the cast dropping the fraction, and the array size
CalculateJobParameters(tb) ==
    [total_jobs |-> (GetBaseJobs * tb) \div BASE_TB, array_size |-> MAX_ARRAY_SIZE]

Min(a, b) == IF a < b THEN a ELSE b

\* let jobs_per_queue = total_jobs / 2;
JobsPerQueue(total_jobs) == total_jobs \div 2

\* let queue_jobs = std::cmp::min(jobs_per_queue, total_jobs - job_offset);
QueueJobs(total_jobs, offset) == Min(JobsPerQueue(total_jobs), total_jobs - offset)

InitSubmit ==
    /\ InitRecord(0)
    /\ InitJobs(0)
    /\ num_rows = MaxRows
    /\ chargeback_ppm = DefaultChargebackPpm
    /\ IdlePipeline
    /\ IdleRetry
    /\ IdleSeed
    /\ IdleSeq
    /\ IdleField
    /\ IdleLogic
    /\ IdleGen
    /\ IdleColumn
    /\ IdlePool
    /\ IdleDate
    /\ target_tb \in 1..MaxTargetTb
    /\ submit_pc = "start"
    /\ queue_idx = 0
    /\ job_offset = 0
    /\ queue_job_offset = 0
    /\ requests = <<>>

UnchangedBySubmit ==
    UNCHANGED <<storeVars, jobVars, configVars, pipeVars, retryVars, seedVars, seqVars,
                fieldVars, logicVars, genVars, columnVars, poolVars, dateVars, target_tb>>

\* let mut job_offset = 0; and into for queue_idx in 0..2
StartSubmit ==
    /\ submit_pc = "start"
    /\ submit_pc' = "queue"
    /\ UNCHANGED <<queue_idx, job_offset, queue_job_offset, requests>>
    /\ UnchangedBySubmit

\* the head of the for loop and let mut queue_job_offset = job_offset;
BeginQueue ==
    /\ submit_pc = "queue"
    /\ IF queue_idx < 2
       THEN /\ submit_pc' = "arrays"
            /\ queue_job_offset' = job_offset
       ELSE /\ submit_pc' = "done"
            /\ UNCHANGED queue_job_offset
    /\ UNCHANGED <<queue_idx, job_offset, requests>>
    /\ UnchangedBySubmit

\* one round of while queue_job_offset < job_offset + queue_jobs
PushArray ==
    /\ submit_pc = "arrays"
    /\ LET params == CalculateJobParameters(target_tb)
           queue_jobs == QueueJobs(params.total_jobs, job_offset)
           remaining_in_queue == (job_offset + queue_jobs) - queue_job_offset
           current_array_size == Min(params.array_size, remaining_in_queue)
       IN  /\ queue_job_offset < job_offset + queue_jobs
           /\ requests' = Append(requests, [size |-> current_array_size,
                                            queue |-> queue_idx,
                                            offset |-> queue_job_offset])
           /\ queue_job_offset' = queue_job_offset + current_array_size
    /\ UNCHANGED <<submit_pc, queue_idx, job_offset>>
    /\ UnchangedBySubmit

\* the while loop ends: job_offset += queue_jobs; and the next queue
EndQueue ==
    /\ submit_pc = "arrays"
    /\ LET queue_jobs == QueueJobs(CalculateJobParameters(target_tb).total_jobs, job_offset)
       IN  /\ ~(queue_job_offset < job_offset + queue_jobs)
           /\ job_offset' = job_offset + queue_jobs
    /\ queue_idx' = queue_idx + 1
    /\ submit_pc' = "queue"
    /\ UNCHANGED <<queue_job_offset, requests>>
    /\ UnchangedBySubmit

NextSubmit ==
    \/ StartSubmit
    \/ BeginQueue
    \/ PushArray
    \/ EndQueue

SpecSubmit == InitSubmit /\ [][NextSubmit]_vars

\* the arrays that hold job index `index`: offset <= index < offset + size
ArraysOf(index) ==
    {i \in 1..Len(requests) :
        requests[i].offset <= index /\ index < requests[i].offset + requests[i].size}

\* C30: the array requests of the job submitter partition the job indices: for
\* every total_jobs each index in [0, total_jobs) is in exactly one array, no
\* index is in two arrays, and every array has between 1 and 1000 jobs.
C30_ArraysPartitionJobIndices ==
    /\ \A i \in 1..Len(requests) : 1 <= requests[i].size /\ requests[i].size <= 1000
    /\ \A i, k \in 1..Len(requests) :
          i < k => requests[i].offset + requests[i].size <= requests[k].offset
    /\ submit_pc = "done" =>
          \A index \in 0..(CalculateJobParameters(target_tb).total_jobs - 1) :
              Cardinality(ArraysOf(index)) = 1

====
